---- MODULE Spec2Model ----
(***************************************************************************)
(* Skill-trend analytics of the job-market-trends-analyzer backend.        *)
(*                                                                         *)
(* Numbers.  Growth rates are Python floats rounded to two decimals; they  *)
(* are kept here as integers in hundredths of a percent (18750 = 187.50%). *)
(* The composite avg_growth_rate is kept in thousandths of a percent, the  *)
(* resolution at which 0.7*a + 0.3*b of two two-decimal rates is exact.    *)
(* Time.  The clock is a day and an hour of that day; a datetime is kept   *)
(* as the number of hours since day 0.                                     *)
(* Programs.  Each program that works on the database is a process with a  *)
(* position and locals of its own; a step is one storage call or one       *)
(* reading of the clock, with the computation that follows it.             *)
(***************************************************************************)
EXTENDS Integers, Sequences, FiniteSets, TLC

VARIABLES
    now,             \* the wall clock, in days
    hour,            \* its time of day, in hours
    jobs,            \* the jobs collection: set of posting documents
    skills,          \* the skills_trends collection: set of trend documents
    market,          \* the market_summary collection: set of summary documents
    unique_indexes,  \* names of the unique indexes on skills_trends, as list_indexes
                     \* gives them (in the order of their creation)
    pc,              \* position of run_analytics.py: idle (not running), connected,
                     \* read, write, done (calculate_skill_trends has returned),
                     \* summary
    days_periods,    \* the argument of calculate_skill_trends
    current_time,    \* datetime.now() taken at its first line
    to_read,         \* windows whose aggregation is still to be executed
    period_results,  \* window -> (skill key -> result of the $group stage)
    all_skill_keys,  \* union of the keys of all windows
    pending,         \* keys of all_skill_keys the write loop has not reached
    updated_count,
    result,          \* the returned value, NoResult until the call returns
    error,           \* the exception logged by the except block, "none" if none
    summary,         \* locals of generate_market_summary called by run_analytics.py
    test,            \* test_analytics.py: its position and locals
    scraper,         \* scraper.py: position and locals of main()
    fix,             \* fix_indexes.py: its position and index_names
    final,           \* final_cleanup.py: its position
    calc_in,         \* arguments of a direct call of the per-key computation
    calc_out         \* what that call produced ([fn |-> "none"] before the call)

runVars == <<pc, days_periods, current_time, to_read, period_results,
             all_skill_keys, pending, updated_count, result, error, summary>>

programVars == <<test, scraper, fix, final>>

storeVars == <<now, hour, jobs, skills, market, unique_indexes, test, scraper, fix, final>>

calcVars == <<calc_in, calc_out>>

vars == <<now, hour, jobs, skills, market, unique_indexes, pc, days_periods,
          current_time, to_read, period_results, all_skill_keys, pending,
          updated_count, result, error, summary, test, scraper, fix, final,
          calc_in, calc_out>>

----------------------------------------------------------------------------
(* Helpers *)

Range(s) == {s[i] : i \in 1..Len(s)}

Min(S) == CHOOSE x \in S : \A y \in S : x <= y

Max(S) == CHOOSE x \in S : \A y \in S : x >= y

\* round(n/d) to the nearest integer, ties to even; d > 0
RoundDiv(n, d) ==
    LET q == n \div d
        r == n % d
    IN  IF 2 * r < d THEN q
        ELSE IF 2 * r > d THEN q + 1
        ELSE IF q % 2 = 0 THEN q ELSE q + 1

\* sorted(days_periods) with duplicates kept out (the lists used are duplicate free)
RECURSIVE SortedSeq(_)
SortedSeq(S) == IF S = {} THEN << >> ELSE <<Min(S)>> \o SortedSeq(S \ {Min(S)})

----------------------------------------------------------------------------
(* Python floats.  A float is an IEEE 754 double: sign * m * 2^e with an     *)
(* integer m of at most 53 bits, and every operation gives the double        *)
(* nearest to the exact result, ties to the even m.  Integers of this        *)
(* length are kept as sequences of 15-bit limbs, lowest first; the values    *)
(* computed here are far from the subnormal and the overflow range.          *)

LimbBase == 32768

RECURSIVE BigOf(_)
BigOf(n) == IF n = 0 THEN << >> ELSE <<n % LimbBase>> \o BigOf(n \div LimbBase)

RECURSIVE BigToInt(_)
BigToInt(x) == IF x = << >> THEN 0 ELSE x[1] + LimbBase * BigToInt(Tail(x))

RECURSIVE BigTrim(_)
BigTrim(x) ==
    IF x # << >> /\ x[Len(x)] = 0 THEN BigTrim(SubSeq(x, 1, Len(x) - 1)) ELSE x

LimbAt(x, i) == IF i <= Len(x) THEN x[i] ELSE 0

RECURSIVE BigCmpFrom(_, _, _)
BigCmpFrom(x, y, i) ==
    IF i = 0 THEN 0
    ELSE IF x[i] > y[i] THEN 1
    ELSE IF x[i] < y[i] THEN -1
    ELSE BigCmpFrom(x, y, i - 1)

\* the sign of x - y
BigCmp(x, y) ==
    IF Len(x) > Len(y) THEN 1
    ELSE IF Len(x) < Len(y) THEN -1
    ELSE BigCmpFrom(x, y, Len(x))

RECURSIVE BigAddFrom(_, _, _, _)
BigAddFrom(x, y, i, carry) ==
    IF i > Len(x) /\ i > Len(y)
    THEN IF carry = 0 THEN << >> ELSE <<carry>>
    ELSE LET t == LimbAt(x, i) + LimbAt(y, i) + carry
         IN  <<t % LimbBase>> \o BigAddFrom(x, y, i + 1, t \div LimbBase)

BigAdd(x, y) == BigAddFrom(x, y, 1, 0)

RECURSIVE BigSubFrom(_, _, _, _)
BigSubFrom(x, y, i, borrow) ==
    IF i > Len(x) THEN << >>
    ELSE LET t == x[i] - LimbAt(y, i) - borrow
         IN  IF t < 0
             THEN <<t + LimbBase>> \o BigSubFrom(x, y, i + 1, 1)
             ELSE <<t>> \o BigSubFrom(x, y, i + 1, 0)

\* x - y for x >= y
BigSub(x, y) == BigTrim(BigSubFrom(x, y, 1, 0))

RECURSIVE BigMulSmallFrom(_, _, _, _)
BigMulSmallFrom(x, c, i, carry) ==
    IF i > Len(x)
    THEN IF carry = 0 THEN << >> ELSE <<carry>>
    ELSE LET t == x[i] * c + carry
         IN  <<t % LimbBase>> \o BigMulSmallFrom(x, c, i + 1, t \div LimbBase)

\* x * c for 0 <= c < LimbBase
BigMulSmall(x, c) == IF c = 0 THEN << >> ELSE BigMulSmallFrom(x, c, 1, 0)

\* x * 2^k
BigShl(x, k) ==
    IF x = << >> THEN << >>
    ELSE [i \in 1..(k \div 15) |-> 0] \o BigMulSmall(x, 2 ^ (k % 15))

RECURSIVE BigMulFrom(_, _, _)
BigMulFrom(x, y, i) ==
    IF i > Len(y) THEN << >>
    ELSE BigAdd(BigShl(BigMulSmall(x, y[i]), 15 * (i - 1)), BigMulFrom(x, y, i + 1))

BigMul(x, y) == BigMulFrom(x, y, 1)

RECURSIVE IntBitLen(_)
IntBitLen(n) == IF n = 0 THEN 0 ELSE 1 + IntBitLen(n \div 2)

BigBitLen(x) == IF x = << >> THEN 0 ELSE 15 * (Len(x) - 1) + IntBitLen(x[Len(x)])

\* one step of the long division by y: the bit of weight 2^k of the quotient
BigDivStep(s, y) ==
    IF s.k < 0 THEN s
    ELSE LET t == BigShl(y, s.k)
         IN  IF BigCmp(s.rem, t) >= 0
             THEN [quot |-> BigAdd(s.quot, BigShl(<<1>>, s.k)),
                   rem  |-> BigSub(s.rem, t),
                   k    |-> s.k - 1]
             ELSE [s EXCEPT !.k = s.k - 1]

\* up to n steps; each step is evaluated before the next is taken
RECURSIVE BigDivSteps(_, _, _)
BigDivSteps(s, y, n) ==
    IF n = 0 \/ s.k < 0 THEN s ELSE BigDivSteps(BigDivStep(s, y), y, n - 1)

\* the steps down to bit 0, eight at a time
RECURSIVE BigDivLoop(_, _)
BigDivLoop(s, y) ==
    IF s.k < 0 THEN s ELSE BigDivLoop(BigDivSteps(s, y, 8), y)

\* quotient and remainder of x by y > 0
BigDivMod(x, y) ==
    BigDivLoop([quot |-> << >>, rem |-> x, k |-> BigBitLen(x) - BigBitLen(y)], y)

FloatZero == [sign |-> 1, m |-> << >>, e |-> 0]

\* float(n) of an int
FloatOfInt(n) ==
    IF n = 0 THEN FloatZero
    ELSE [sign |-> IF n < 0 THEN -1 ELSE 1, m |-> BigOf(IF n < 0 THEN 0 - n ELSE n), e |-> 0]

\* sign * m * 2^e for the m nearest to dm.quot + (dm.rem + f) / (2 * half),
\* ties to the even m
HalfEven(sign, dm, half, sticky, e) ==
    LET c == BigCmp(dm.rem, half)
    IN  [sign |-> sign,
         m    |-> IF c > 0 \/ (c = 0 /\ (sticky \/ dm.quot[1] % 2 = 1))
                  THEN BigAdd(dm.quot, <<1>>)
                  ELSE dm.quot,
         e    |-> e]

\* the double nearest to sign * (q + f) * 2^e, where 0 <= f < 1 and f > 0 iff
\* sticky; q has more than 53 bits when sticky
FloatRound(sign, q, sticky, e) ==
    LET d == BigBitLen(q) - 53
    IN  IF d <= 0
        THEN [sign |-> sign, m |-> q, e |-> e]
        ELSE HalfEven(sign, BigDivMod(q, BigShl(<<1>>, d)), BigShl(<<1>>, d - 1),
                      sticky, e + d)

\* the double nearest to sign * (dm.quot + f) * 2^e, f > 0 iff dm.rem is not 0
FloatRoundQuotient(sign, dm, e) == FloatRound(sign, dm.quot, dm.rem # << >>, e)

\* x / y, y # 0
float_truediv(x, y) ==
    IF x.m = << >> THEN FloatZero
    ELSE LET k  == Max({0, 55 + BigBitLen(y.m) - BigBitLen(x.m)})
         IN  FloatRoundQuotient(x.sign * y.sign, BigDivMod(BigShl(x.m, k), y.m),
                                x.e - y.e - k)

\* x * y
float_mul(x, y) ==
    IF x.m = << >> \/ y.m = << >> THEN FloatZero
    ELSE FloatRound(x.sign * y.sign, BigMul(x.m, y.m), FALSE, x.e + y.e)

\* x + y
float_add(x, y) ==
    IF x.m = << >> THEN y
    ELSE IF y.m = << >> THEN x
    ELSE LET e  == Min({x.e, y.e})
             xm == BigShl(x.m, x.e - e)
             ym == BigShl(y.m, y.e - e)
             c  == BigCmp(xm, ym)
         IN  IF x.sign # y.sign /\ c = 0 THEN FloatZero
             ELSE FloatRound(IF c >= 0 THEN x.sign ELSE y.sign,
                             IF x.sign = y.sign THEN BigAdd(xm, ym)
                             ELSE IF c > 0 THEN BigSub(xm, ym)
                             ELSE BigSub(ym, xm),
                             FALSE, e)

\* x - y
float_sub(x, y) == float_add(x, [y EXCEPT !.sign = 0 - y.sign])

\* n / d of two ints, d > 0: the double nearest to the quotient
int_truediv(n, d) == float_truediv(FloatOfInt(n), FloatOfInt(d))

\* a decimal literal or the result of round(.., 2): the double nearest to h/100
float_of_hundredths(h) == int_truediv(h, 100)

\* round(x, 2), in hundredths: the decimal of two places nearest to the exact
\* value of the double, ties to the even digit
round_2(x) ==
    IF x.m = << >> THEN 0
    ELSE IF x.e >= 0 THEN x.sign * BigToInt(BigShl(BigMulSmall(x.m, 100), x.e))
    ELSE x.sign * BigToInt(HalfEven(1, BigDivMod(BigMulSmall(x.m, 100),
                                                 BigShl(<<1>>, 0 - x.e)),
                                    BigShl(<<1>>, 0 - x.e - 1), FALSE, 0).m)

\* the sign of x - p/q for a double x and ints p, q with q > 0
float_cmp(x, p, q) ==
    LET ps == IF p < 0 THEN -1 ELSE IF p > 0 THEN 1 ELSE 0
        pm == BigOf(IF p < 0 THEN 0 - p ELSE p)
        xs == IF x.m = << >> THEN 0 ELSE x.sign
    IN  IF xs # ps THEN (IF xs > ps THEN 1 ELSE -1)
        ELSE IF xs = 0 THEN 0
        ELSE LET l == BigShl(BigMul(x.m, BigOf(q)), Max({x.e, 0}))
                 r == BigShl(pm, Max({0 - x.e, 0}))
             IN  xs * BigCmp(l, r)

----------------------------------------------------------------------------
(* Per-key computation of calculate_skill_trends *)

UP == "up"
DOWN == "down"
STABLE == "stable"

\* job_counts.get(w, 0)
GetCount(job_counts, w) == IF w \in DOMAIN job_counts THEN job_counts[w] ELSE 0

\* PairGrowth with the older slice averaged over the whole longer window
PairGrowthWholeWindow(recent, longer, S, span) ==
    LET older == longer - recent
    IN  IF older > 0
        THEN RoundDiv(10000 * (recent * (S + span) - older * S), older * S)
        ELSE RoundDiv(10000 * (100 * recent - S), S)

\* ((daily_recent - daily_older) / daily_older) * 100 as the floats give it
growth_percent(daily_recent, daily_older) ==
    float_mul(float_truediv(float_sub(daily_recent, daily_older), daily_older),
              FloatOfInt(100))

\* the same from the counts:
\*   daily_recent = recent / S ; daily_older = older / span if older > 0 else 0.01
pair_quotient(recent, older, S, span) ==
    growth_percent(int_truediv(recent, S),
                   IF older > 0 THEN int_truediv(older, span) ELSE float_of_hundredths(1))

\* One pairwise rate, in hundredths of a percent: round(pair_quotient, 2).
\* The exact quotient is n/d hundredths; the float is so close to it that
\* both round alike unless n/d lies halfway between two hundredths, and there
\* the float itself is rounded
PairGrowth(recent, longer, S, span) ==
    LET older == longer - recent
        n == IF older > 0 THEN 10000 * (recent * span - older * S)
             ELSE 10000 * (100 * recent - S)
        d == IF older > 0 THEN older * S ELSE S
    IN  IF 2 * (n % d) = d
        THEN round_2(pair_quotient(recent, older, S, span))
        ELSE RoundDiv(n, d)

\* growth_rates: the dict in insertion order, as a sequence of (label, rate)
growth_rates(periods, job_counts) ==
    IF Len(periods) >= 2
    THEN (IF 7 \in DOMAIN job_counts /\ 30 \in DOMAIN job_counts
          THEN <<[label |-> "7d_vs_23d",
                  rate  |-> PairGrowth(job_counts[7], job_counts[30], 7, 23)]>>
          ELSE << >>)
         \o
         (IF 30 \in DOMAIN job_counts /\ 60 \in DOMAIN job_counts
          THEN <<[label |-> "30d_vs_30d",
                  rate  |-> PairGrowth(job_counts[30], job_counts[60], 30, 30)]>>
          ELSE << >>)
    ELSE << >>

Abs(x) == IF x < 0 THEN 0 - x ELSE x

\* filtered_rates without the outlier filter
filtered_rates_unfiltered(rates) == rates

\* filtered_rates = [rate for rate in growth_rates.values() if abs(rate) <= 500]
filtered_rates(rates) == SelectSeq(rates, LAMBDA e : Abs(e.rate) <= 50000)

\* avg_growth_rate in thousandths of a percent
avg_growth_rate(rates) ==
    LET F == filtered_rates(rates)
    IN  IF Len(rates) > 0
        THEN IF Len(F) > 0
             THEN IF Len(F) >= 2
                  THEN 7 * F[1].rate + 3 * F[2].rate
                  ELSE 10 * F[1].rate
             ELSE 10 * Min({Max({rates[1].rate, -20000}), 20000})
        ELSE 0

\* sum(rate * weight for rate, weight in zip(filtered_rates[:2], [0.7, 0.3]))
\* as the floats give it; 0 + x is x
weighted_sum(first, second) ==
    float_add(float_mul(float_of_hundredths(first), float_of_hundredths(70)),
              float_mul(float_of_hundredths(second), float_of_hundredths(30)))

\* composites at which a comparison of _determine_trend_direction_fixed turns
GrowthThresholds == {50000, 20000, 5000, -20000}

\* the side of the exact composite on which the float avg_growth_rate lies:
\* 1 above, -1 below, 0 where it is exact or its side decides nothing (the
\* exact composite is no threshold and not halfway between two hundredths)
avg_float_side(rates) ==
    LET F == filtered_rates(rates)
        exact == 7 * F[1].rate + 3 * F[2].rate
    IN  IF Len(F) >= 2
        THEN IF exact % 10 = 5 \/ exact \in GrowthThresholds
             THEN float_cmp(weighted_sum(F[1].rate, F[2].rate), exact, 1000)
             ELSE 0
        ELSE 0

\* determine_branch with a non-strict first threshold
determine_branch_ge50(avg, job_counts) ==
    LET recent_activity == GetCount(job_counts, 7)
    IN  IF avg >= 50000 /\ recent_activity >= 5 THEN 1
        ELSE IF avg > 20000 /\ recent_activity >= 2 THEN 2
        ELSE IF avg > 5000 /\ recent_activity >= 1 THEN 3
        ELSE IF avg < -20000 \/ recent_activity = 0 THEN 4
        ELSE 5

\* determine_branch whose third rule asks for a recent count of two
determine_branch_third_needs_two(avg, job_counts) ==
    LET recent_activity == GetCount(job_counts, 7)
    IN  IF avg > 50000 /\ recent_activity >= 5 THEN 1
        ELSE IF avg > 20000 /\ recent_activity >= 2 THEN 2
        ELSE IF avg > 5000 /\ recent_activity >= 2 THEN 3
        ELSE IF avg < -20000 \/ recent_activity = 0 THEN 4
        ELSE 5

\* The branch of _determine_trend_direction_fixed that returns (1..5)
determine_branch(avg, job_counts) ==
    LET recent_activity == GetCount(job_counts, 7)
    IN  IF avg > 50000 /\ recent_activity >= 5 THEN 1
        ELSE IF avg > 20000 /\ recent_activity >= 2 THEN 2
        ELSE IF avg > 5000 /\ recent_activity >= 1 THEN 3
        ELSE IF avg < -20000 \/ recent_activity = 0 THEN 4
        ELSE 5

determine_trend_direction_fixed(avg, job_counts) ==
    LET b == determine_branch(avg, job_counts)
    IN  IF b \in {1, 2, 3} THEN UP ELSE IF b = 4 THEN DOWN ELSE STABLE

NoneAmount == -1    \* None where an amount is expected

\* what the $cond of the salaries $push gives for a posting without both amounts
NoneSalary == [min |-> NoneAmount, max |-> NoneAmount]

\* the result of a window for a key that the window did not observe; the code
\* has latest_data = None there
NoData == [job_count |-> 0, companies |-> {}, locations |-> {}, salaries |-> << >>]

\* lines 110-118: the result of the shortest window that observed the key
latest_data_of(skill_key, periods, results) ==
    LET W == {w \in Range(periods) : skill_key \in DOMAIN results[w]}
    IN  IF W = {} THEN NoData ELSE results[Min(W)][skill_key]

RECURSIVE SumAmounts(_, _)
SumAmounts(salaries, field) ==
    IF salaries = << >> THEN 0
    ELSE Head(salaries)[field] + SumAmounts(Tail(salaries), field)

\* lines 176-183: round(sum(s[field] for s in valid_salaries) / len(valid_salaries), 2)
\* in hundredths, None without a valid salary.  Amounts are whole numbers, so
\* the sum is exact and the quotient is the nearest float
avg_salary(latest_data, field) ==
    LET valid_salaries == SelectSeq(latest_data.salaries, LAMBDA s : s # NoneSalary)
        total == SumAmounts(valid_salaries, field)
        n     == Len(valid_salaries)
    IN  IF n = 0 THEN NoneAmount
        ELSE IF 2 * ((100 * total) % n) = n
             THEN round_2(int_truediv(total, n))
             ELSE RoundDiv(100 * total, n)

\* lst[:n] of a list whose order the store does not fix ($addToSet): the
\* sets of n of its elements, the whole list when it has no more than n
slices(S, n) == {T \in SUBSET S : Cardinality(T) = Min({n, Cardinality(S)})}

\* avg_growth_rate as the float is: the exact composite, and one thousandth
\* to the side of it where the float lies beside a threshold or a tie
float_avg_growth_rate(rates) == avg_growth_rate(rates) + avg_float_side(rates)

\* lines 172-173, 193-195: what the document takes from the composite
growth_fields(rates, avg, job_counts) ==
    [growth_rate         |-> RoundDiv(avg, 10),
     growth_rates_detail |-> rates,
     trend_direction     |-> determine_trend_direction_fixed(avg, job_counts)]

\* lines 152-173: the composite of the pairwise rates and what follows from it
trend_fields(rates, job_counts) ==
    growth_fields(rates, float_avg_growth_rate(rates), job_counts)

\* skill_trend_doc, the fields given to $set; companies_hiring and
\* top_locations are the slices the caller took of latest_data
skill_trend_doc(skill_key, periods, job_counts, latest_data, companies_hiring, top_locations, time) ==
    [skill_name          |-> skill_key[1],
     category            |-> skill_key[2],
     job_count_7d        |-> GetCount(job_counts, 7),
     job_count_30d       |-> GetCount(job_counts, 30),
     job_count_60d       |-> GetCount(job_counts, 60),
     companies_hiring    |-> companies_hiring,
     top_locations       |-> top_locations,
     avg_salary_min      |-> avg_salary(latest_data, "min"),
     avg_salary_max      |-> avg_salary(latest_data, "max"),
     last_updated        |-> time,
     period_days         |-> Max(Range(periods))]
    @@ trend_fields(growth_rates(periods, job_counts), job_counts)

\* the documents a caller can build for a key: one for each way the two
\* slices can fall
skill_trend_docs(skill_key, periods, job_counts, latest_data, time) ==
    {skill_trend_doc(skill_key, periods, job_counts, latest_data, c, l, time) :
        c \in slices(latest_data.companies, 15), l \in slices(latest_data.locations, 10)}

----------------------------------------------------------------------------
(* The stores *)

MaxJobs == 2        \* postings held by the jobs collection
MaxAdvance == 1     \* how many times the clock is advanced

Day0 == 100
AdvanceDays == 25
HourStep == 12      \* the clock is read at midnight and at noon

SkillKeys == {<<"github", "cloud">>, <<"github", "tools">>, <<"python", "programming">>}

GithubCloud == <<"github", "cloud">>
GithubTools == <<"github", "tools">>
Python == <<"python", "programming">>

\* a datetime: hours since day 0
datetime(day, hr) == 24 * day + hr

\* cutoff_date.strftime("%Y-%m-%d"): the day of a datetime
strftime(t) == t \div 24

NoDate == [kind |-> "none", day |-> 0]
IsoDate(d) == [kind |-> "iso", day |-> d]

\* posted_date is Optional[str] and is stored as the search service sent it:
\* the empty string, a string that sorts above every 'YYYY-MM-DD' (it starts
\* with a letter: 'yesterday', 'NaT'), one that sorts below the cutoffs of the
\* run (it starts with '0' or '1': '01/05/2024', '1 day ago')
EmptyDate == [kind |-> "empty", day |-> 0]
TextHigh == [kind |-> "text_high", day |-> 0]
TextLow == [kind |-> "text_low", day |-> 0]

\* SalaryRange(min_amount, max_amount): both are stored, None included
SalaryRange(min_amount, max_amount) == [min_amount |-> min_amount, max_amount |-> max_amount]

\* What the search service returns, as create_job_record takes it over:
\* job_hash (of company, title and location; the titles differ), extracted
\* skills, date_posted, company, location, min_amount and max_amount.  Every
\* posting has a title and a company of two characters or more
JobFeed ==
    { [job_hash |-> 1, skills_extracted |-> {GithubTools}, posted_date |-> NoDate,
       company |-> "acme", location |-> "pune",
       salary_range |-> SalaryRange(NoneAmount, NoneAmount)],
      [job_hash |-> 2, skills_extracted |-> {Python}, posted_date |-> IsoDate(85),
       company |-> "globex", location |-> "remote",
       salary_range |-> SalaryRange(10, 21)],
      [job_hash |-> 3, skills_extracted |-> {GithubCloud}, posted_date |-> IsoDate(55),
       company |-> "acme", location |-> "pune",
       salary_range |-> SalaryRange(15, NoneAmount)] }

\* date_query of calculate_skill_trends, as MongoDB evaluates it: $gte compares
\* within one type only, so a string posted_date is matched by the string
\* clause, by binary string order, and None by the scraped_date clause.  The
\* cutoff is a datetime with its time of day: a scraped_date is compared with
\* it to the hour, a 'YYYY-MM-DD' string with its day
date_query(job, cutoff_date) ==
    \/ /\ job.posted_date.kind = "datetime"
       /\ datetime(job.posted_date.day, 0) >= cutoff_date
    \/ /\ job.posted_date.kind = "iso"
       /\ job.posted_date.day >= strftime(cutoff_date)
    \/ /\ job.posted_date.kind = "text_high"
    \/ /\ job.posted_date.kind \in {"none", "empty"}
       /\ datetime(job.scraped_date, job.scraped_hour) >= cutoff_date

\* the postings of a set in the order of their job_hash
RECURSIVE by_job_hash(_)
by_job_hash(J) ==
    IF J = {} THEN << >>
    ELSE LET j == CHOOSE x \in J : \A y \in J : x.job_hash <= y.job_hash
         IN  <<j>> \o by_job_hash(J \ {j})

\* the $cond of the salaries $push for one posting
salary_cond(job) ==
    IF job.salary_range.min_amount # NoneAmount /\ job.salary_range.max_amount # NoneAmount
    THEN [min |-> job.salary_range.min_amount, max |-> job.salary_range.max_amount]
    ELSE NoneSalary

\* the $group stage for one key over the postings that carry it.  companies
\* and locations are $addToSet lists, kept as sets; salaries has one entry
\* per posting, here in the order of job_hash (it is summed and counted only)
group_result(G) ==
    LET ordered == by_job_hash(G)
    IN  [job_count |-> Cardinality(G),
         companies |-> {j.company : j \in G},
         locations |-> {j.location : j \in G},
         salaries  |-> [i \in 1..Len(ordered) |-> salary_cond(ordered[i])]]

\* the $match / $unwind / $group pipeline: skill key -> result
aggregate(J, cutoff_date) ==
    LET matched == {j \in J : date_query(j, cutoff_date)}
        keys    == UNION {j.skills_extracted : j \in matched}
    IN  [k \in keys |-> group_result({j \in matched : k \in j.skills_extracted})]

\* job_counts of one key over sorted(days_periods)
job_counts_of(skill_key, periods, results) ==
    [w \in Range(periods) |->
        IF skill_key \in DOMAIN results[w] THEN results[w][skill_key].job_count ELSE 0]

NameIndex == "skill_name_1"
PairIndex == "skill_name_category_unique"

\* documents selected by the filter {'skill_name': ..., 'category': ...}
filter_matches(S, skill_key) ==
    {d \in S : d.skill_name = skill_key[1] /\ d.category = skill_key[2]}

\* the insert half of an upsert is refused by a unique index
duplicate_key(S, indexes, skill_key) ==
    \/ NameIndex \in Range(indexes) /\ \E d \in S : d.skill_name = skill_key[1]
    \/ PairIndex \in Range(indexes) /\ filter_matches(S, skill_key) # {}

\* skills_trends.create_index([("skill_name", ASCENDING)], unique=True) of
\* _create_indexes: nothing to do when the index exists; refused when two
\* records share a name, and _create_indexes logs the exception
create_index_skill_name(S, indexes) ==
    IF \/ NameIndex \in Range(indexes)
       \/ \E a, b \in S : a.skill_name = b.skill_name /\ a # b
    THEN indexes
    ELSE Append(indexes, NameIndex)

FreshId(S) == Min({i \in 1..(Cardinality(S) + 1) : \A d \in S : d._id # i})

\* {'$set': doc} applied to a stored document
apply_set(d, doc) ==
    [f \in DOMAIN d \cup DOMAIN doc |-> IF f \in DOMAIN doc THEN doc[f] ELSE d[f]]

\* update_one_upsert that always inserts
update_one_insert(S, skill_key, doc) ==
    S \cup {apply_set([_id |-> FreshId(S)], doc)}

\* update_one_upsert whose filter is the skill name alone
update_one_by_name(S, skill_key, doc) ==
    LET m == {d \in S : d.skill_name = skill_key[1]}
    IN  IF m # {}
        THEN LET d == CHOOSE x \in m : \A y \in m : x._id <= y._id
             IN  (S \ {d}) \cup {apply_set(d, doc)}
        ELSE S \cup {apply_set([_id |-> FreshId(S)], doc)}

\* update_one(filter, {'$set': doc}, upsert=True) on a store without fault
update_one_upsert(S, skill_key, doc) ==
    LET m == filter_matches(S, skill_key)
    IN  IF m # {}
        THEN LET d == CHOOSE x \in m : \A y \in m : x._id <= y._id
             IN  (S \ {d}) \cup {apply_set(d, doc)}
        ELSE S \cup {apply_set([_id |-> FreshId(S)], doc)}

----------------------------------------------------------------------------
(* generate_market_summary, one step per clock reading or storage call.     *)
(* The locals of a call are a record: at, the call it is to make next, and  *)
(* what it has read so far.                                                 *)

\* no call of generate_market_summary is under way
NoSummary == [at |-> "none"]

\* line 296: today = datetime.now() cut to midnight
summary_today(day) == [at |-> "total_jobs", today |-> day]

\* the postings of the $match of the three top-15 pipelines and of
\* skill_categories: scraped_date >= week_ago = today - 7 days
week_jobs(J, today) ==
    {j \in J : datetime(j.scraped_date, j.scraped_hour) >= datetime(today - 7, 0)}

\* $unwind of skills_extracted: (job_hash, skill key) pairs
unwound(J) == UNION {{<<j.job_hash, k>> : k \in j.skills_extracted} : j \in J}

\* $sort by count descending, $limit n: the n elements with the highest
\* counts (count names the field), in every way the store can order equal
\* counts
top_n(R, n, count) ==
    {T \in SUBSET R :
        /\ Cardinality(T) = Min({n, Cardinality(R)})
        /\ \A a \in T, b \in R \ T : a[count] >= b[count]}

\* the top_skills pipeline: one group per skill name with its count and the
\* category of the $first posting of the group, which is whichever the store
\* visits first
top_skills(J, today) ==
    LET U     == unwound(week_jobs(J, today))
        names == {u[2][1] : u \in U}
        cats  == {u[2][2] : u \in U}
        first == {f \in [names -> cats] :
                     \A n \in names : \E u \in U : u[2] = <<n, f[n]>>}
    IN  UNION {top_n({[skill    |-> n,
                       count    |-> Cardinality({u \in U : u[2][1] = n}),
                       category |-> f[n]] : n \in names}, 15, "count") : f \in first}

\* the top_companies pipeline
top_companies(J, today) ==
    LET W == week_jobs(J, today)
    IN  top_n({[company   |-> c,
                job_count |-> Cardinality({j \in W : j.company = c})] :
                    c \in {j.company : j \in W}}, 15, "job_count")

\* the top_locations pipeline
top_locations(J, today) ==
    LET W == week_jobs(J, today)
    IN  top_n({[location  |-> l,
                job_count |-> Cardinality({j \in W : j.location = l})] :
                    l \in {j.location : j \in W}}, 15, "job_count")

\* the skill_categories pipeline, as the dict category -> count
skill_categories(J, today) ==
    LET U == unwound(week_jobs(J, today))
    IN  [c \in {u[2][2] : u \in U} |-> Cardinality({u \in U : u[2][2] = c})]

\* lines 301-367: the storage call at loc.at on jobs collection J and trend
\* collection S; the set of locals the call can leave.  jobs_last_7d and the
\* two distinct() calls give values that MarketSummary does not take
summary_read(loc, J, S) ==
    IF loc.at = "total_jobs"
    THEN {[at |-> "new_jobs_24h", total_jobs |-> Cardinality(J)] @@ loc}
    ELSE IF loc.at = "new_jobs_24h"
    THEN {[at |-> "top_skills",
           new_jobs_24h |-> Cardinality({j \in J :
               datetime(j.scraped_date, j.scraped_hour) >= datetime(loc.today - 1, 0)})]
          @@ loc}
    ELSE IF loc.at = "top_skills"
    THEN {[at |-> "top_companies", top_skills |-> t] @@ loc : t \in top_skills(J, loc.today)}
    ELSE IF loc.at = "top_companies"
    THEN {[at |-> "top_locations", top_companies |-> t] @@ loc :
              t \in top_companies(J, loc.today)}
    ELSE IF loc.at = "top_locations"
    THEN {[at |-> "skill_categories", top_locations |-> t] @@ loc :
              t \in top_locations(J, loc.today)}
    ELSE IF loc.at = "skill_categories"
    THEN {[at |-> "total_unique_skills",
           skill_categories |-> skill_categories(J, loc.today)] @@ loc}
    ELSE {[at |-> "update_one", total_unique_skills |-> Cardinality(S)] @@ loc}

\* MarketSummary(...).model_dump(): jobs_last_7d, total_companies and
\* total_locations are no fields of the model and are dropped
MarketSummary(loc) ==
    [date                |-> loc.today,
     total_jobs          |-> loc.total_jobs,
     new_jobs_24h        |-> loc.new_jobs_24h,
     top_skills          |-> loc.top_skills,
     top_companies       |-> loc.top_companies,
     top_locations       |-> loc.top_locations,
     skill_categories    |-> loc.skill_categories,
     total_unique_skills |-> loc.total_unique_skills]

\* market.update_one({'date': today}, {'$set': summary}, upsert=True), as the
\* server carries it out; the stores it can leave.  At "update_one" it looks
\* for a record of the date and sets the fields on one that it finds (which
\* one, when there are several, is the server's choice); when it finds none
\* it goes on to insert, at "insert".  The index on date (database.py line
\* 65) is not unique, so nothing ties the insert to the match: a record of
\* the date that another caller has inserted in between does not refuse it
market_update_one(M, today, doc, at) ==
    LET m == {d \in M : d.date = today}
    IN  IF at = "insert" THEN {M \cup {apply_set([_id |-> FreshId(M)], doc)}}
        ELSE IF m = {} THEN {M}
        ELSE {(M \ {d}) \cup {apply_set(d, doc)} : d \in m}

\* One storage call of generate_market_summary by a caller whose locals are
\* loc, the match and the insert of the upsert each a step.  The locals it
\* leaves are in the set given back by summary_next, NoSummary when the call
\* has returned: after update_one (line 387), or with False when a storage
\* call raised, nothing written
generate_market_summary(loc, fault) ==
    IF fault
    THEN UNCHANGED <<market, jobs, skills>>
    ELSE IF loc.at \in {"update_one", "insert"}
    THEN /\ market' \in market_update_one(market, loc.today, MarketSummary(loc), loc.at)
         /\ UNCHANGED <<jobs, skills>>
    ELSE UNCHANGED <<market, jobs, skills>>

\* the locals after that call
summary_next(loc, fault) ==
    IF fault \/ loc.at = "insert" THEN {NoSummary}
    ELSE IF loc.at = "update_one"
    THEN IF \A d \in market : d.date # loc.today
         THEN {[loc EXCEPT !.at = "insert"]} ELSE {NoSummary}
    ELSE summary_read(loc, jobs, skills)

----------------------------------------------------------------------------
(* run_analytics.py: calculate_skill_trends([7, 30, 60]), one step per      *)
(* storage call, then generate_market_summary                               *)

NoResult == -1

ListArg(l) == [is_list |-> TRUE, list |-> l]

\* the argument run_analytics.py passes
RunArgs == {ListArg(<<7, 30, 60>>)}

IdleRun ==
    /\ pc = "idle"
    /\ days_periods = ListArg(<< >>)
    /\ current_time = 0
    /\ to_read = << >>
    /\ period_results = << >>
    /\ all_skill_keys = {}
    /\ pending = {}
    /\ updated_count = 0
    /\ result = NoResult
    /\ error = "none"
    /\ summary = NoSummary

IdleCalc ==
    /\ calc_in = [fn |-> "none"]
    /\ calc_out = [fn |-> "none"]

\* test_analytics.py is not running
NoTest == [at |-> "none"]

\* scraper.py is not running
NoScraper == [at |-> "none"]

\* a maintenance script is not running
NoScript == [at |-> "none", index_names |-> << >>]

\* none of the other programs is running
IdlePrograms ==
    /\ test = NoTest
    /\ scraper = NoScraper
    /\ fix = NoScript
    /\ final = NoScript

\* midnight, and no market summary written yet
IdleMarket ==
    /\ hour = 0
    /\ market = {}

\* the database as the first connect() left it
Init ==
    /\ now = Day0
    /\ jobs = {}
    /\ skills = {}
    /\ unique_indexes = <<NameIndex>>
    /\ IdleRun
    /\ IdlePrograms
    /\ IdleMarket
    /\ IdleCalc

\* run_analytics.py line 16: get_database(), whose connect() runs
\* _create_indexes; of its create_index calls the one on skill_name
\* (database.py line 60) is the one that bears on the trend records
main_get_database ==
    /\ pc = "idle"
    /\ pc' = "connected"
    /\ unique_indexes' = create_index_skill_name(skills, unique_indexes)
    /\ UNCHANGED <<days_periods, current_time, to_read, period_results, all_skill_keys,
                   pending, updated_count, result, error, summary>>
    /\ UNCHANGED <<now, hour, jobs, skills, market, programVars, calcVars>>

\* the except block: log the exception, return 0; the per-window results
\* are locals and are gone when the call returns
Raise(e) ==
    /\ pc' = "done"
    /\ error' = e
    /\ result' = 0
    /\ to_read' = << >>
    /\ period_results' = << >>

\* the loop over all_skill_keys is over: return updated_count
Return(n) ==
    /\ pc' = "done"
    /\ error' = "none"
    /\ result' = n
    /\ to_read' = << >>
    /\ period_results' = << >>

\* run_analytics.py line 28, lines 16-30 of calculate_skill_trends: entry,
\* current_time = datetime.now(), period_cutoffs
StartRun(arg) ==
    /\ pc = "connected"
    /\ days_periods' = arg
    /\ current_time' = datetime(now, hour)
    /\ all_skill_keys' = {}
    /\ pending' = {}
    /\ updated_count' = 0
    /\ to_read' = arg.list
    /\ period_results' = << >>
    /\ pc' = "read"
    /\ result' = NoResult
    /\ error' = "none"
    /\ UNCHANGED <<summary, storeVars, calcVars>>

\* union_keys that keeps the keys of the shortest window only
union_keys_shortest(results) == DOMAIN results[Min(DOMAIN results)]

\* lines 98-101: all_skill_keys, the keys of every window's result
union_keys(results) == UNION {DOMAIN results[w] : w \in DOMAIN results}

\* lines 36-96 for one window, then lines 98-103 after the last one
ReadWindow(fault) ==
    /\ pc = "read"
    /\ to_read # << >>
    /\ IF fault
       THEN /\ Raise("read")
            /\ UNCHANGED <<all_skill_keys, pending>>
       ELSE LET period_days == Head(to_read)
                cutoff_date == current_time - 24 * period_days
                results     == (period_days :> aggregate(jobs, cutoff_date))
                                 @@ period_results
                keys        == union_keys(results)
            IN  IF Tail(to_read) # << >>
                THEN /\ period_results' = results
                     /\ to_read' = Tail(to_read)
                     /\ UNCHANGED <<pc, result, error, all_skill_keys, pending>>
                ELSE /\ all_skill_keys' = keys
                     /\ pending' = keys
                     /\ IF keys = {}
                        THEN Return(0)
                        ELSE /\ period_results' = results
                             /\ to_read' = << >>
                             /\ pc' = "write"
                             /\ UNCHANGED <<result, error>>
    /\ UNCHANGED <<days_periods, current_time, updated_count, summary, storeVars, calcVars>>

\* lines 105-214 for one key, then lines 216-217 after the last one
WriteKey(skill_key, fault) ==
    /\ pc = "write"
    /\ skill_key \in pending
    /\ LET job_counts  == job_counts_of(skill_key, days_periods.list, period_results)
           latest_data == latest_data_of(skill_key, days_periods.list, period_results)
       IN  IF fault
           THEN /\ Raise("write")
                /\ UNCHANGED <<skills, pending, updated_count>>
           ELSE IF filter_matches(skills, skill_key) = {}
                   /\ duplicate_key(skills, unique_indexes, skill_key)
           THEN /\ Raise("DuplicateKeyError")
                /\ UNCHANGED <<skills, pending, updated_count>>
           ELSE /\ \E doc \in skill_trend_docs(skill_key, days_periods.list, job_counts,
                                               latest_data, current_time) :
                       skills' = update_one_upsert(skills, skill_key, doc)
                /\ updated_count' = updated_count + 1
                /\ pending' = pending \ {skill_key}
                /\ IF pending \ {skill_key} = {}
                   THEN Return(updated_count + 1)
                   ELSE UNCHANGED <<pc, result, error, to_read, period_results>>
    /\ UNCHANGED <<now, hour, jobs, market, unique_indexes, days_periods,
                   current_time, all_skill_keys, summary, programVars, calcVars>>

\* run_analytics.py line 33, line 296 of generate_market_summary: the clock
\* is read.  updated_count is a variable of main() and stays
main_summary_today ==
    /\ pc = "done"
    /\ pc' = "summary"
    /\ summary' = summary_today(now)
    /\ UNCHANGED <<days_periods, current_time, to_read, period_results, all_skill_keys,
                   pending, updated_count, result, error>>
    /\ UNCHANGED <<storeVars, calcVars>>

\* one storage call of generate_market_summary; when it has returned what is
\* left of main() logs only, the process ends and its variables are gone
main_generate_market_summary(fault) ==
    /\ pc = "summary"
    /\ generate_market_summary(summary, fault)
    /\ \E next \in summary_next(summary, fault) :
          /\ summary' = next
          /\ IF next = NoSummary
             THEN /\ pc' = "idle"
                  /\ days_periods' = ListArg(<< >>)
                  /\ current_time' = 0
                  /\ all_skill_keys' = {}
                  /\ pending' = {}
                  /\ updated_count' = 0
                  /\ result' = NoResult
                  /\ error' = "none"
             ELSE UNCHANGED <<pc, days_periods, current_time, all_skill_keys, pending,
                              updated_count, result, error>>
    /\ UNCHANGED <<to_read, period_results>>
    /\ UNCHANGED <<now, hour, unique_indexes, programVars, calcVars>>

----------------------------------------------------------------------------
(* test_analytics.py *)

\* line 14: get_database()
test_get_database ==
    /\ test.at = "none"
    /\ test' = [at |-> "connected"]
    /\ unique_indexes' = create_index_skill_name(skills, unique_indexes)
    /\ UNCHANGED <<now, hour, jobs, skills, market, scraper, fix, final, runVars, calcVars>>

\* calculate_skill_trends(30): the dict comprehension of lines 27-30 iterates
\* over the integer, the TypeError is caught by the except block before any
\* window is read and the call returns 0
calculate_skill_trends_int == [result |-> 0, error |-> "TypeError"]

\* line 22: calculate_skill_trends(30); line 27 up to the clock reading of
\* generate_market_summary (analytics.py line 296)
test_calculate_skill_trends ==
    /\ test.at = "connected"
    /\ test' = [at             |-> "summary",
                trends_updated |-> calculate_skill_trends_int.result,
                error          |-> calculate_skill_trends_int.error,
                summary        |-> summary_today(now)]
    /\ UNCHANGED <<now, hour, jobs, skills, market, unique_indexes, scraper, fix, final,
                   runVars, calcVars>>

\* line 27: one storage call of generate_market_summary; what follows it in
\* the script reads and logs only
test_generate_market_summary(fault) ==
    /\ test.at = "summary"
    /\ generate_market_summary(test.summary, fault)
    /\ \E next \in summary_next(test.summary, fault) :
          test' = IF next = NoSummary THEN NoTest ELSE [test EXCEPT !.summary = next]
    /\ UNCHANGED <<now, hour, unique_indexes, scraper, fix, final, runVars, calcVars>>

----------------------------------------------------------------------------
(* scraper.py main(): one scraping session *)

CleanupDays == 90          \* old_cutoff of cleanup_invalid_records
ScraperCleanupDays == 180  \* scraper.cleanup_old_data(180) of the scraper's main
ValidationDays == 30       \* cutoff_date of the validator

\* JobScraper(): get_database() (scraper.py line 42)
scraper_get_database ==
    /\ scraper.at = "none"
    /\ scraper' = [at |-> "search", total_stored |-> 0]
    /\ unique_indexes' = create_index_skill_name(skills, unique_indexes)
    /\ UNCHANGED <<now, hour, jobs, skills, market, test, fix, final, runVars, calcVars>>

\* create_job_record, the first line of store_job: the record of a posting
\* the search found, with scraped_date = datetime.now() (line 107)
create_job_record(job) ==
    /\ scraper.at = "search"
    /\ Cardinality(jobs) < MaxJobs
    /\ scraper' = [at           |-> "store",
                   total_stored |-> scraper.total_stored,
                   job_record   |-> job @@ [scraped_date |-> now, scraped_hour |-> hour]]
    /\ UNCHANGED <<now, hour, jobs, skills, market, unique_indexes, test, fix, final,
                   runVars, calcVars>>

\* validate_job_record on a record that is not stored yet: title and company
\* are there, the job_hash is not found, and the record must not have been
\* scraped more than 30 days before the validator reads the clock
validate_job_record(job_record, clock) ==
    (clock - datetime(job_record.scraped_date, job_record.scraped_hour)) \div 24
        <= ValidationDays

\* store_job after create_job_record, up to the insert: find_one on the
\* job_hash ('duplicate') and validate_job_record, which reads the clock
\* ('invalid').  No other program writes the jobs collection
store_job_validate ==
    /\ scraper.at = "store"
    /\ LET job_record == scraper.job_record
           passed == /\ \A j \in jobs : j.job_hash # job_record.job_hash
                     /\ validate_job_record(job_record, datetime(now, hour))
       IN  scraper' = IF passed
                      THEN [scraper EXCEPT !.at = "insert"]
                      ELSE [at |-> "search", total_stored |-> scraper.total_stored]
    /\ UNCHANGED <<now, hour, jobs, skills, market, unique_indexes, test, fix, final,
                   runVars, calcVars>>

\* insert_one of store_job (line 236): 'stored', or 'error' when the store
\* raises
store_job_insert_one(fault) ==
    /\ scraper.at = "insert"
    /\ jobs' = IF fault THEN jobs ELSE jobs \cup {scraper.job_record}
    /\ scraper' = [at           |-> "search",
                   total_stored |-> IF fault THEN scraper.total_stored
                                    ELSE scraper.total_stored + 1]
    /\ UNCHANGED <<now, hour, skills, market, unique_indexes, test, fix, final,
                   runVars, calcVars>>

\* search_and_store_jobs has returned and nothing was stored: main() skips
\* the update and the cleanups, reads the statistics and ends
main_nothing_stored ==
    /\ scraper.at = "search"
    /\ scraper.total_stored = 0
    /\ scraper' = NoScraper
    /\ UNCHANGED <<now, hour, jobs, skills, market, unique_indexes, test, fix, final,
                   runVars, calcVars>>

\* search_and_store_jobs has returned with total_stored > 0 (main, line 394):
\* JobScraper.update_skill_trends calls calculate_skill_trends(30), then
\* generate_market_summary, up to its clock reading (analytics.py line 296)
update_skill_trends ==
    /\ scraper.at = "search"
    /\ scraper.total_stored > 0
    /\ scraper' = [at             |-> "summary",
                   trends_updated |-> calculate_skill_trends_int.result,
                   error          |-> calculate_skill_trends_int.error,
                   summary        |-> summary_today(now)]
    /\ UNCHANGED <<now, hour, jobs, skills, market, unique_indexes, test, fix, final,
                   runVars, calcVars>>

\* one storage call of generate_market_summary in update_skill_trends
scraper_generate_market_summary(fault) ==
    /\ scraper.at = "summary"
    /\ generate_market_summary(scraper.summary, fault)
    /\ \E next \in summary_next(scraper.summary, fault) :
          scraper' = IF next = NoSummary THEN [at |-> "validate"]
                     ELSE [scraper EXCEPT !.summary = next]
    /\ UNCHANGED <<now, hour, unique_indexes, test, fix, final, runVars, calcVars>>

\* data_quality_score < 0.8 for validate_database_integrity at clock reading
\* clock.  The score is the mean of four ratios: postings without duplicate
\* (job_hash is unique: all), with skills, not older than 30 days, and valid
\* ones among the recent; a stored posting is never valid, validate_job_record
\* finds its own job_hash.  An empty collection scores 0.0
low_data_quality(J, clock) ==
    LET total   == Cardinality(J)
        cutoff  == clock - 24 * ValidationDays
        missing == Cardinality({j \in J : j.skills_extracted = {}})
        old     == Cardinality({j \in J : datetime(j.scraped_date, j.scraped_hour) < cutoff})
        recent  == Cardinality({j \in J : datetime(j.scraped_date, j.scraped_hour) >= cutoff})
        \* the four ratios times total
        ratios  == total + (total - missing) + (total - old)
                     + (IF recent = 0 THEN total ELSE 0)
    IN  total = 0 \/ 5 * ratios < 16 * total

\* validate_and_cleanup_data(cleanup=True): validate_database_integrity reads
\* the collection and the clock; cleanup_invalid_records runs when the score
\* is below 0.8
validate_and_cleanup_data ==
    /\ scraper.at = "validate"
    /\ scraper' = IF low_data_quality(jobs, datetime(now, hour))
                  THEN [at |-> "old_cutoff"]
                  ELSE [at |-> "cutoff_date"]
    /\ UNCHANGED <<now, hour, jobs, skills, market, unique_indexes, test, fix, final,
                   runVars, calcVars>>

\* cleanup_invalid_records(dry_run=False): job_hash is unique, so no duplicate
\* is found; line 168: old_cutoff = datetime.now() - timedelta(days=90)
cleanup_invalid_records_old_cutoff ==
    /\ scraper.at = "old_cutoff"
    /\ scraper' = [at |-> "delete_old", old_cutoff |-> datetime(now, hour) - 24 * CleanupDays]
    /\ UNCHANGED <<now, hour, jobs, skills, market, unique_indexes, test, fix, final,
                   runVars, calcVars>>

\* delete_many({"scraped_date": {"$lt": cutoff}})
delete_many_scraped_before(J, cutoff) ==
    {j \in J : datetime(j.scraped_date, j.scraped_hour) >= cutoff}

\* line 170: the postings scraped before old_cutoff are deleted; an exception
\* is logged by cleanup_invalid_records
cleanup_invalid_records(fault) ==
    /\ scraper.at = "delete_old"
    /\ jobs' = IF fault THEN jobs ELSE delete_many_scraped_before(jobs, scraper.old_cutoff)
    /\ scraper' = [at |-> "cutoff_date"]
    /\ UNCHANGED <<now, hour, skills, market, unique_indexes, test, fix, final,
                   runVars, calcVars>>

\* MongoDB.cleanup_old_data(days), database.py line 93:
\* cutoff_date = datetime.now() - timedelta(days=days)
cleanup_old_data_cutoff_date(days) ==
    /\ scraper.at = "cutoff_date"
    /\ scraper' = [at |-> "cleanup_old_data", cutoff_date |-> datetime(now, hour) - 24 * days]
    /\ UNCHANGED <<now, hour, jobs, skills, market, unique_indexes, test, fix, final,
                   runVars, calcVars>>

\* database.py line 95: delete_many; an exception is logged by
\* JobScraper.cleanup_old_data.  main() then reads the statistics and ends
cleanup_old_data(fault) ==
    /\ scraper.at = "cleanup_old_data"
    /\ jobs' = IF fault THEN jobs ELSE delete_many_scraped_before(jobs, scraper.cutoff_date)
    /\ scraper' = NoScraper
    /\ UNCHANGED <<now, hour, skills, market, unique_indexes, test, fix, final,
                   runVars, calcVars>>

----------------------------------------------------------------------------
(* The programs that open the database and the maintenance scripts *)

\* MongoDB._create_indexes on skills_trends, run by connect() of a process
\* that opens the database and does no more to the collections kept here
\* (the API server, test_connection.py)
create_indexes ==
    /\ unique_indexes' = create_index_skill_name(skills, unique_indexes)
    /\ UNCHANGED <<now, hour, jobs, skills, market, programVars, runVars, calcVars>>

\* fix_indexes.py, one step per storage call that bears on the collection.
\* Only the unique indexes are kept here; category_1 and job_count_30d_-1 are
\* created after skill_name_1 and dropped with it, and they decide nothing.
\* Line 5: get_database()
fix_indexes_get_database ==
    /\ fix.at = "none"
    /\ unique_indexes' = create_index_skill_name(skills, unique_indexes)
    /\ fix' = [at |-> "list", index_names |-> << >>]
    /\ UNCHANGED skills

\* line 15: index_names of list_indexes() (line 9 lists them for the log)
fix_indexes_list ==
    /\ fix.at = "list"
    /\ fix' = [at |-> "drop", index_names |-> unique_indexes]
    /\ UNCHANGED <<unique_indexes, skills>>

\* lines 16-19: one drop_index of the loop; dropping a name that is no index
\* any more raises, and the except block ends the loop
fix_indexes_drop_index ==
    /\ fix.at = "drop"
    /\ fix.index_names # << >>
    /\ LET idx_name == Head(fix.index_names)
       IN  IF idx_name \in Range(unique_indexes)
           THEN /\ unique_indexes' = SelectSeq(unique_indexes, LAMBDA n : n # idx_name)
                /\ fix' = [fix EXCEPT !.index_names = Tail(@)]
           ELSE /\ fix' = [fix EXCEPT !.index_names = << >>]
                /\ UNCHANGED unique_indexes
    /\ UNCHANGED skills

\* lines 23-27: create_index on (skill_name, category), unique; refused when
\* two records share the pair, and the exception ends the script
fix_indexes_create_index ==
    /\ fix.at = "drop"
    /\ fix.index_names = << >>
    /\ IF PairIndex \in Range(unique_indexes)
       THEN /\ fix' = [fix EXCEPT !.at = "delete"]
            /\ UNCHANGED unique_indexes
       ELSE IF \E a, b \in skills :
                  a.skill_name = b.skill_name /\ a.category = b.category /\ a # b
       THEN /\ fix' = NoScript
            /\ UNCHANGED unique_indexes
       ELSE /\ unique_indexes' = Append(unique_indexes, PairIndex)
            /\ fix' = [fix EXCEPT !.at = "delete"]
    /\ UNCHANGED skills

\* line 31: delete_many({})
fix_indexes_delete_many ==
    /\ fix.at = "delete"
    /\ skills' = {}
    /\ fix' = NoScript
    /\ UNCHANGED unique_indexes

\* fix_indexes.py; it is a program of its own, whatever the others are doing
fix_indexes_and_clear_skills ==
    /\ \/ fix_indexes_get_database
       \/ fix_indexes_list
       \/ fix_indexes_drop_index
       \/ fix_indexes_create_index
       \/ fix_indexes_delete_many
    /\ UNCHANGED <<now, hour, jobs, market, test, scraper, final, runVars, calcVars>>

\* final_cleanup.py line 7: get_database()
final_cleanup_get_database ==
    /\ final.at = "none"
    /\ unique_indexes' = create_index_skill_name(skills, unique_indexes)
    /\ final' = [at |-> "drop_indexes", index_names |-> << >>]
    /\ UNCHANGED skills

\* final_cleanup.py line 13: drop_indexes()
final_cleanup_drop_indexes ==
    /\ final.at = "drop_indexes"
    /\ unique_indexes' = << >>
    /\ final' = [at |-> "delete", index_names |-> << >>]
    /\ UNCHANGED skills

\* final_cleanup.py line 19: delete_many({})
final_cleanup_delete_many ==
    /\ final.at = "delete"
    /\ skills' = {}
    /\ final' = NoScript
    /\ UNCHANGED unique_indexes

\* final_cleanup.py
final_database_cleanup ==
    /\ \/ final_cleanup_get_database
       \/ final_cleanup_drop_indexes
       \/ final_cleanup_delete_many
    /\ UNCHANGED <<now, hour, jobs, market, test, scraper, fix, runVars, calcVars>>

\* time passes, by days
AdvanceTime ==
    /\ now < Day0 + MaxAdvance * AdvanceDays
    /\ now' = now + AdvanceDays
    /\ UNCHANGED <<hour, jobs, skills, market, unique_indexes, programVars, runVars, calcVars>>

MaxMarketDays == 1    \* days the clock runs past Day0 by half days

\* time passes, by half a day
AdvanceHours ==
    /\ now < Day0 + MaxMarketDays
    /\ hour' = (hour + HourStep) % 24
    /\ now' = IF hour + HourStep >= 24 THEN now + 1 ELSE now
    /\ UNCHANGED <<jobs, skills, market, unique_indexes, programVars, runVars, calcVars>>

\* Every program once, each at its own pace
Next ==
    \/ main_get_database
    \/ \E arg \in RunArgs : StartRun(arg)
    \/ \E fault \in BOOLEAN : ReadWindow(fault)
    \/ \E k \in SkillKeys, fault \in BOOLEAN : WriteKey(k, fault)
    \/ main_summary_today
    \/ \E fault \in BOOLEAN : main_generate_market_summary(fault)
    \/ test_get_database
    \/ test_calculate_skill_trends
    \/ \E fault \in BOOLEAN : test_generate_market_summary(fault)
    \/ scraper_get_database
    \/ \E job \in JobFeed : create_job_record(job)
    \/ store_job_validate
    \/ \E fault \in BOOLEAN : store_job_insert_one(fault)
    \/ main_nothing_stored
    \/ update_skill_trends
    \/ \E fault \in BOOLEAN : scraper_generate_market_summary(fault)
    \/ validate_and_cleanup_data
    \/ cleanup_invalid_records_old_cutoff
    \/ \E fault \in BOOLEAN : cleanup_invalid_records(fault)
    \/ cleanup_old_data_cutoff_date(ScraperCleanupDays)
    \/ \E fault \in BOOLEAN : cleanup_old_data(fault)
    \/ create_indexes
    \/ fix_indexes_and_clear_skills
    \/ final_database_cleanup
    \/ AdvanceTime
    \/ AdvanceHours

Spec == Init /\ [][Next]_vars

----------------------------------------------------------------------------
(* run_analytics.py over stored postings, with fix_indexes.py and          *)
(* final_cleanup.py started at any time: they are programs of their own   *)
(* and nothing keeps them from running while a run reads or writes         *)

\* the postings of JobFeed as stored three days before Day0
StoredJobs == {job @@ [scraped_date |-> Day0 - 3, scraped_hour |-> 0] : job \in JobFeed}

InitScripts ==
    /\ now = Day0
    /\ jobs \in {J \in SUBSET StoredJobs : Cardinality(J) \in 0..MaxJobs}
    /\ skills = {}
    /\ unique_indexes = <<NameIndex>>
    /\ IdleRun
    /\ IdlePrograms
    /\ IdleMarket
    /\ IdleCalc

\* run_analytics.py, the scripts, another program that opens the database,
\* and the clock
NextScripts ==
    \/ main_get_database
    \/ \E arg \in RunArgs : StartRun(arg)
    \/ \E fault \in BOOLEAN : ReadWindow(fault)
    \/ \E k \in SkillKeys, fault \in BOOLEAN : WriteKey(k, fault)
    \/ main_summary_today
    \/ \E fault \in BOOLEAN : main_generate_market_summary(fault)
    \/ create_indexes
    \/ fix_indexes_and_clear_skills
    \/ final_database_cleanup
    \/ AdvanceTime

SpecScripts == InitScripts /\ [][NextScripts]_vars

----------------------------------------------------------------------------
(* Direct calls of the computation on enumerated arguments *)

\* window lists named by the source, its callers and the specification, and
\* one whose shortest window is shorter than the 7 days that line 230 reads
WindowLists == {<<7, 30, 60>>, <<7, 30>>, <<30, 60>>, <<30>>, <<7, 14, 30>>, <<3, 7, 30>>}

CountValues == {0, 1, 2, 5, 6, 14, 20, 30, 33, 40}

\* composite growth values around the thresholds, thousandths of a percent
GrowthValues == {-20001, -20000, 0, 5000, 5001, 20000, 20001, 50000, 50001, 51000}

ProbeKey == <<"python", "programming">>

NoCall == [fn |-> "none"]

\* what the postings of a key carry: no salary at all, or salaries
SalaryProfiles == {"none", "paid"}

\* the $group result of a window that counted n postings of a key: two
\* companies when there are two postings or more, one location, and the
\* salaries of the profile
group_sample(n, profile) ==
    [job_count |-> n,
     companies |-> IF n >= 2 THEN {"acme", "globex"} ELSE {"acme"},
     locations |-> {"pune"},
     salaries  |-> [i \in 1..n |-> IF profile = "paid"
                                   THEN [min |-> 10 + (i % 3), max |-> 20 + (i % 4)]
                                   ELSE NoneSalary]]

\* latest_data for the job counts of a key: the result of the shortest window
\* that counted a posting
latest_data_sample(job_counts, profile) ==
    LET W == {w \in DOMAIN job_counts : job_counts[w] > 0}
    IN  IF W = {} THEN NoData ELSE group_sample(job_counts[Min(W)], profile)

InitCalc ==
    /\ \E dp \in WindowLists, g \in GrowthValues, p \in SalaryProfiles :
         \E jc \in [Range(dp) -> CountValues] :
            /\ \E w \in Range(dp) : jc[w] > 0
            /\ g # 0 => p = "none"
            /\ calc_in = [days_periods |-> dp, job_counts |-> jc, avg |-> g,
                          latest_data |-> latest_data_sample(jc, p)]
    /\ calc_out = NoCall
    /\ now = Day0 /\ jobs = {} /\ skills = {} /\ unique_indexes = <<NameIndex>>
    /\ IdleRun
    /\ IdlePrograms
    /\ IdleMarket

\* lines 120-201 for one key
CallTrend ==
    /\ calc_out = NoCall
    /\ calc_in.avg = 0
    /\ LET rates == growth_rates(calc_in.days_periods, calc_in.job_counts)
       IN  \E doc \in skill_trend_docs(ProbeKey, calc_in.days_periods, calc_in.job_counts,
                                       calc_in.latest_data, 0) :
               calc_out' = [fn    |-> "trend",
                            rates |-> rates,
                            avg   |-> avg_growth_rate(rates),
                            doc   |-> doc]
    /\ UNCHANGED <<calc_in, storeVars, runVars>>

\* _determine_trend_direction_fixed(avg_growth_rate, job_counts)
CallDetermine ==
    /\ calc_out = NoCall
    /\ calc_out' = [fn        |-> "determine",
                    branch    |-> determine_branch(calc_in.avg, calc_in.job_counts),
                    direction |-> determine_trend_direction_fixed(calc_in.avg,
                                                                  calc_in.job_counts)]
    /\ UNCHANGED <<calc_in, storeVars, runVars>>

NextCalc == CallTrend \/ CallDetermine

SpecCalc == InitCalc /\ [][NextCalc]_vars

----------------------------------------------------------------------------
(* Direct calls of the two storage operations of a run: the window query on *)
(* one posting and the upsert of one trend record                           *)

\* days around the cutoffs of the 7, 30 and 60 day windows of a run at Day0
DateDays == {Day0 - 61, Day0 - 60, Day0 - 31, Day0 - 30, Day0 - 8, Day0 - 7, Day0}

PostedDates == {NoDate, EmptyDate, TextHigh, TextLow} \cup {IsoDate(d) : d \in DateDays}

WindowDays == {7, 30, 60}

\* job counts of nested windows for a key that some window observed
NestedCounts ==
    {jc \in [WindowDays -> 0..2] : jc[7] <= jc[30] /\ jc[30] <= jc[60] /\ jc[60] >= 1}

\* a record written when the collection had another schema: job_count and
\* demand_level are fields this version of calculate_skill_trends does not set
LegacyDoc ==
    [_id |-> 1, skill_name |-> "python", category |-> "programming",
     job_count |-> 4, demand_level |-> "high",
     last_updated |-> datetime(Day0 - 90, 0)]

\* a record written by a run of this version ten days before
StaleDoc ==
    apply_set([_id |-> 2],
              skill_trend_doc(GithubTools, <<7, 30, 60>>, [w \in WindowDays |-> 1],
                              group_sample(1, "paid"), {"acme"}, {"pune"},
                              datetime(Day0 - 10, 0)))

SeedStores == SUBSET {LegacyDoc, StaleDoc}

\* times of day of a scrape and of a run
Hours == {0, HourStep}

InitStore ==
    /\ \/ /\ \E pd \in PostedDates, sd \in DateDays, sh \in Hours, n \in WindowDays :
               calc_in = [op |-> "date_query",
                          job |-> [posted_date |-> pd, scraped_date |-> sd,
                                   scraped_hour |-> sh],
                          period_days |-> n]
          /\ hour \in Hours
          /\ skills = {}
       \/ /\ \E k \in SkillKeys, jc \in NestedCounts, p \in SalaryProfiles :
               calc_in = [op |-> "update_one", skill_key |-> k, job_counts |-> jc,
                          latest_data |-> latest_data_sample(jc, p)]
          /\ hour = 0
          /\ skills \in SeedStores
    /\ calc_out = NoCall
    /\ now = Day0 /\ jobs = {} /\ market = {} /\ unique_indexes = <<PairIndex>>
    /\ IdleRun
    /\ IdlePrograms

\* lines 39-54 for one posting and one window of a run started now
CallDateQuery ==
    /\ calc_out = NoCall
    /\ calc_in.op = "date_query"
    /\ calc_out' = [fn      |-> "date_query",
                    counted |-> date_query(calc_in.job,
                                           datetime(now, hour) - 24 * calc_in.period_days)]
    /\ UNCHANGED <<calc_in, storeVars, runVars>>

\* lines 185-208 for one key of a run started now
CallUpdateOne ==
    /\ calc_out = NoCall
    /\ calc_in.op = "update_one"
    /\ \E doc \in skill_trend_docs(calc_in.skill_key, <<7, 30, 60>>, calc_in.job_counts,
                                   calc_in.latest_data, datetime(now, hour)) :
           /\ skills' = update_one_upsert(skills, calc_in.skill_key, doc)
           /\ calc_out' = [fn |-> "update_one", doc |-> doc, before |-> skills]
    /\ UNCHANGED <<calc_in, now, hour, jobs, market, unique_indexes, programVars, runVars>>

NextStore == CallDateQuery \/ CallUpdateOne

SpecStore == InitStore /\ [][NextStore]_vars

----------------------------------------------------------------------------
(* run_analytics.py started again and again over a posting set that no      *)
(* longer changes                                                           *)

InitRerun ==
    /\ now = Day0
    /\ jobs \in {J \in SUBSET StoredJobs : Cardinality(J) \in 1..MaxJobs}
    /\ skills = {}
    /\ unique_indexes \in {<<NameIndex>>, <<PairIndex>>}
    /\ IdleRun
    /\ IdlePrograms
    /\ IdleMarket
    /\ IdleCalc

NextRerun ==
    \/ main_get_database
    \/ StartRun(ListArg(<<7, 30, 60>>))
    \/ ReadWindow(FALSE)
    \/ \E k \in SkillKeys : WriteKey(k, FALSE)
    \/ main_summary_today
    \/ \E fault \in BOOLEAN : main_generate_market_summary(fault)
    \/ AdvanceTime

SpecRerun == InitRerun /\ [][NextRerun]_vars

----------------------------------------------------------------------------
(* run_analytics.py over a trend store that holds records written before:   *)
(* by a run of this version, or when the collection had another schema      *)

InitSeeded ==
    /\ now = Day0
    /\ jobs \in {J \in SUBSET StoredJobs : Cardinality(J) \in 1..MaxJobs}
    /\ skills \in SeedStores
    /\ unique_indexes = <<PairIndex>>
    /\ IdleRun
    /\ IdlePrograms
    /\ IdleMarket
    /\ IdleCalc

NextSeeded ==
    \/ main_get_database
    \/ StartRun(ListArg(<<7, 30, 60>>))
    \/ \E fault \in BOOLEAN : ReadWindow(fault)
    \/ \E k \in SkillKeys, fault \in BOOLEAN : WriteKey(k, fault)
    \/ main_summary_today
    \/ \E fault \in BOOLEAN : main_generate_market_summary(fault)
    \/ AdvanceTime

SpecSeeded == InitSeeded /\ [][NextSeeded]_vars

----------------------------------------------------------------------------
(* EnhancedSkillExtractor.  A text is a sequence of words joined by single  *)
(* blanks; positions are character offsets, so the context window of a      *)
(* match is the 50 characters before it and the 50 after the skill name.    *)

MaxDescription == 3   \* words in a description

Filler == "we value people who like to learn and to share what they do"

\* the words postings are made of
Words ==
    {"python", "github", "github actions", "r", "5 years", "expert in", "required",
     "python@corp.com", "contact@r.com", "github.com/acme", Filler}

\* len(word)
WordLen(w) ==
    CASE w = "python" -> 6
      [] w = "github" -> 6
      [] w = "github actions" -> 14
      [] w = "r" -> 1
      [] w = "5 years" -> 7
      [] w = "expert in" -> 9
      [] w = "required" -> 8
      [] w = "python@corp.com" -> 15
      [] w = "contact@r.com" -> 13
      [] w = "github.com/acme" -> 15
      [] w = Filler -> 59
      [] w \in {"aws", "gcp", "vue"} -> 3
      [] w = "azure" -> 5
      [] w \in {"gitlab", "nodejs", "nextjs", "nuxtjs", "vue.js"} -> 6
      [] w \in {"express", "node.js", "next.js", "nuxt.js"} -> 7
      [] w = "gitlab ci" -> 9
      [] w = "express.js" -> 10
      [] w = "google cloud" -> 12
      [] w = "microsoft azure" -> 15
      [] w = "amazon web services" -> 19

\* iteration order of compiled_patterns (TECH_SKILLS)
Categories ==
    <<"programming", "frontend", "backend", "databases", "cloud", "mobile", "data", "tools">>

\* what the compiled pattern of a category finds in a word: the matched text
\* and its offset in the word (at most one match per word and category here)
PatternMatches(category, w) ==
    CASE category = "programming" /\ w \in {"python", "python@corp.com"} ->
            {[raw |-> "python", off |-> 0]}
      [] category = "programming" /\ w = "r" -> {[raw |-> "r", off |-> 0]}
      [] category = "programming" /\ w = "contact@r.com" -> {[raw |-> "r", off |-> 8]}
      [] category = "cloud" /\ w = "github actions" -> {[raw |-> "github actions", off |-> 0]}
      [] category = "tools" /\ w \in {"github", "github actions", "github.com/acme"} ->
            {[raw |-> "github", off |-> 0]}
      [] category = "cloud" /\ w \in {"gitlab ci", "gitlab", "amazon web services", "aws",
                                       "microsoft azure", "azure", "gcp", "google cloud"} ->
            {[raw |-> w, off |-> 0]}
      [] category = "tools" /\ w \in {"gitlab ci", "gitlab"} -> {[raw |-> "gitlab", off |-> 0]}
      [] category = "frontend" /\ w \in {"vue.js", "vue", "next.js", "nextjs",
                                          "nuxt.js", "nuxtjs"} ->
            {[raw |-> w, off |-> 0]}
      [] category = "backend" /\ w \in {"express.js", "express", "node.js", "nodejs"} ->
            {[raw |-> w, off |-> 0]}
      [] OTHER -> {}

\* the keys of normalization_map
Aliases ==
    {"gitlab ci", "github actions", "amazon web services", "microsoft azure", "gcp",
     "vue.js", "express.js", "node.js", "next.js", "nuxt.js"}

\* normalization_map.get(raw_skill, raw_skill)
normalization_map(raw) ==
    CASE raw = "gitlab ci" -> "gitlab"
      [] raw = "github actions" -> "github"
      [] raw = "amazon web services" -> "aws"
      [] raw = "microsoft azure" -> "azure"
      [] raw = "gcp" -> "google cloud"
      [] raw = "vue.js" -> "vue"
      [] raw = "express.js" -> "express"
      [] raw = "node.js" -> "nodejs"
      [] raw = "next.js" -> "nextjs"
      [] raw = "nuxt.js" -> "nuxtjs"
      [] OTHER -> raw

\* len(skill_name)
NameLen(name) == WordLen(name)

\* the word begins with the skill name: a regex ending in the name matches there
StartsWith(w, name) ==
    \/ name = "python" /\ w \in {"python", "python@corp.com"}
    \/ name = "github" /\ w \in {"github", "github actions", "github.com/acme"}
    \/ name = "r" /\ w \in {"r", "required"}
    \/ name = "gitlab" /\ w \in {"gitlab", "gitlab ci"}
    \/ name = "vue" /\ w \in {"vue", "vue.js"}
    \/ name = "express" /\ w \in {"express", "express.js"}
    \/ name \in {"aws", "azure", "google cloud", "nodejs", "nextjs", "nuxtjs"} /\ w = name

\* offsets and lengths of '@', 'http' and '.com' in a word
UrlMarks(w) ==
    CASE w = "python@corp.com" -> {<<6, 1>>, <<11, 4>>}
      [] w = "contact@r.com" -> {<<7, 1>>, <<9, 4>>}
      [] w = "github.com/acme" -> {<<6, 4>>}
      [] OTHER -> {}

RECURSIVE FieldLen(_)
FieldLen(field) ==
    IF field = << >> THEN 0
    ELSE WordLen(Head(field)) + (IF Len(field) > 1 THEN 1 ELSE 0) + FieldLen(Tail(field))

\* the words of a field with their offsets, the field starting at offset base
RECURSIVE Placed(_, _)
Placed(field, base) ==
    IF field = << >> THEN << >>
    ELSE <<[word |-> Head(field), start |-> base]>>
         \o Placed(Tail(field), base + WordLen(Head(field)) + 1)

\* full_text = f"{title} {description} {requirements}".lower()
full_text(title, description, requirements) ==
    LET d0 == FieldLen(title) + 1
        r0 == d0 + FieldLen(description) + 1
    IN  [words |-> Placed(title, 0) \o Placed(description, d0) \o Placed(requirements, r0),
         len   |-> r0 + FieldLen(requirements)]

\* the context of a match holds the phrase followed at once by the skill name
context_before(skill, text, position, phrase) ==
    LET start == Max({0, position - 50})
        end   == Min({text.len, position + NameLen(skill) + 50})
        words == text.words
    IN  \E i \in 1..(Len(words) - 1) :
            /\ words[i].word = phrase
            /\ StartsWith(words[i + 1].word, skill)
            /\ words[i].start >= start
            /\ words[i + 1].start + NameLen(skill) <= end

\* the context of a match holds the requirement phrase
context_requirement(skill, text, position) ==
    LET start == Max({0, position - 50})
        end   == Min({text.len, position + NameLen(skill) + 50})
        words == text.words
    IN  \E i \in 1..Len(words) :
            /\ words[i].word = "required"
            /\ words[i].start >= start
            /\ words[i].start + 8 <= end

\* the context of a match holds '@', 'http' or '.com'
context_url(skill, text, position) ==
    LET start == Max({0, position - 50})
        end   == Min({text.len, position + NameLen(skill) + 50})
        words == text.words
    IN  \E i \in 1..Len(words) : \E m \in UrlMarks(words[i].word) :
            /\ words[i].start + m[1] >= start
            /\ words[i].start + m[1] + m[2] <= end

\* The float sum 0.5 (+0.3) (+0.2) (+0.2) (-0.4) in hundredths.  Python gives
\* 0.5-0.4 = 0.09999999999999998, 0.7-0.4 = 0.29999999999999993,
\* 0.5+0.2+0.2 = 0.8999999999999999, that -0.4 = 0.4999999999999999 and
\* 1.2-0.4 = 0.7999999999999999; such a sum is kept one hundredth below the
\* decimal value, so that confidences compare as the floats do.
float_sum(experience, proficiency, requirement, url) ==
    LET decimal == 50 + (IF experience THEN 30 ELSE 0) + (IF proficiency THEN 20 ELSE 0)
                      + (IF requirement THEN 20 ELSE 0) - (IF url THEN 40 ELSE 0)
        short   == \/ url /\ ~experience
                   \/ ~experience /\ proficiency /\ requirement
                   \/ experience /\ proficiency /\ requirement /\ url
    IN  IF short THEN decimal - 1 ELSE decimal

\* _calculate_skill_confidence with the sum left unclamped
calculate_skill_confidence_unclamped(skill, text, position) ==
    float_sum(context_before(skill, text, position, "5 years"),
              context_before(skill, text, position, "expert in"),
              context_requirement(skill, text, position),
              context_url(skill, text, position))

\* _calculate_skill_confidence, in hundredths: context = text[start:end]; the
\* experience and the proficiency pattern are searched with the skill name
\* appended, the requirement pattern alone
calculate_skill_confidence(skill, text, position) ==
    LET confidence ==
            float_sum(context_before(skill, text, position, "5 years"),
                      context_before(skill, text, position, "expert in"),
                      context_requirement(skill, text, position),
                      context_url(skill, text, position))
    IN  Min({100, Max({0, confidence})})

\* pattern.finditer(full_text) of one category, from word i on
RECURSIVE finditer(_, _, _)
finditer(category, words, i) ==
    IF i > Len(words) THEN << >>
    ELSE LET found == PatternMatches(category, words[i].word)
         IN  (IF found = {} THEN << >>
              ELSE LET m == CHOOSE x \in found : TRUE
                   IN  <<[category |-> category, raw |-> m.raw,
                          position |-> words[i].start + m.off]>>)
             \o finditer(category, words, i + 1)

\* the matches in the order the two loops of lines 110-112 visit them
RECURSIVE all_matches(_, _)
all_matches(text, c) ==
    IF c > Len(Categories) THEN << >>
    ELSE finditer(Categories[c], text.words, 1) \o all_matches(text, c + 1)

\* the matches the loop scores (lines 113-121): normalized name of at least
\* two characters, with the confidence of the occurrence
scored_matches(text) ==
    LET named == [i \in 1..Len(all_matches(text, 1)) |->
                    LET m == all_matches(text, 1)[i]
                    IN  [skill    |-> normalization_map(m.raw),
                         category |-> m.category,
                         position |-> m.position]]
        kept  == SelectSeq(named, LAMBDA m : NameLen(m.skill) >= 2)
    IN  [i \in 1..Len(kept) |->
            [skill      |-> kept[i].skill,
             category   |-> kept[i].category,
             position   |-> kept[i].position,
             confidence |-> calculate_skill_confidence(kept[i].skill, text, kept[i].position)]]

\* score_update that replaces on an equal confidence as well
score_update_on_equal(scores, m) ==
    LET entry == [skill |-> m.skill, category |-> m.category, confidence |-> m.confidence]
    IN  IF \E i \in 1..Len(scores) : scores[i].skill = m.skill
        THEN [i \in 1..Len(scores) |->
                IF scores[i].skill = m.skill /\ scores[i].confidence <= m.confidence
                THEN entry ELSE scores[i]]
        ELSE Append(scores, entry)

\* score_update that records every occurrence
score_append(scores, m) ==
    Append(scores, [skill |-> m.skill, category |-> m.category, confidence |-> m.confidence])

\* lines 123-124: skill_scores keeps one (category, confidence) per name,
\* replaced only by a strictly higher confidence
score_update(scores, m) ==
    LET entry == [skill |-> m.skill, category |-> m.category, confidence |-> m.confidence]
    IN  IF \E i \in 1..Len(scores) : scores[i].skill = m.skill
        THEN [i \in 1..Len(scores) |->
                IF scores[i].skill = m.skill /\ scores[i].confidence < m.confidence
                THEN entry ELSE scores[i]]
        ELSE Append(scores, entry)

RECURSIVE skill_scores(_, _)
skill_scores(matches, scores) ==
    IF matches = << >> THEN scores
    ELSE skill_scores(Tail(matches), score_update(scores, Head(matches)))

\* lines 126-131: the entries of skill_scores with confidence > 0.3
found_skills(scores) ==
    LET emitted == SelectSeq(scores, LAMBDA e : e.confidence > 30)
    IN  [i \in 1..Len(emitted) |->
            [skill |-> emitted[i].skill, category |-> emitted[i].category]]

\* extract_skills_enhanced(description, title, requirements)
extract_skills_enhanced(description, title, requirements) ==
    IF description = << >>
    THEN << >>
    ELSE LET text == full_text(title, description, requirements)
         IN  found_skills(skill_scores(scored_matches(text), << >>))

RECURSIVE SeqsUpTo(_, _)
SeqsUpTo(S, n) ==
    IF n = 0 THEN {<< >>}
    ELSE LET shorter == SeqsUpTo(S, n - 1)
         IN  shorter \cup {Append(q, x) : q \in shorter, x \in S}

TitleTexts == {<< >>, <<"python">>, <<"expert in">>}

RequirementsTexts == {<< >>, <<"github">>, <<"required">>}

InitExtract ==
    /\ \E t \in TitleTexts, r \in RequirementsTexts :
         \E d \in SeqsUpTo(Words, MaxDescription) :
            calc_in = [op |-> "extract", title |-> t, description |-> d, requirements |-> r]
    /\ calc_out = NoCall
    /\ now = Day0 /\ jobs = {} /\ skills = {} /\ unique_indexes = <<NameIndex>>
    /\ IdleRun
    /\ IdlePrograms
    /\ IdleMarket

\* JobScraper.extract_skills on the three text fields of a posting
CallExtract ==
    /\ calc_out = NoCall
    /\ LET text == full_text(calc_in.title, calc_in.description, calc_in.requirements)
       IN  calc_out' = [fn           |-> "extract",
                        scored       |-> IF calc_in.description = << >> THEN << >>
                                         ELSE scored_matches(text),
                        found_skills |-> extract_skills_enhanced(calc_in.description,
                                             calc_in.title, calc_in.requirements)]
    /\ UNCHANGED <<calc_in, storeVars, runVars>>

NextExtract == CallExtract

SpecExtract == InitExtract /\ [][NextExtract]_vars

----------------------------------------------------------------------------
(* Two postings that differ in one mention: an alias of the normalization   *)
(* table in the one, its canonical form in the other                        *)

\* words around the mention that name no skill
PlainWords == {"5 years", "expert in", "required", Filler}

MaxPlain == 2   \* plain words before the mention

InitAlias ==
    /\ \E a \in Aliases, before \in SeqsUpTo(PlainWords, MaxPlain) :
         calc_in = [op |-> "alias", alias |-> a, before |-> before]
    /\ calc_out = NoCall
    /\ now = Day0 /\ jobs = {} /\ skills = {} /\ unique_indexes = <<NameIndex>>
    /\ IdleRun
    /\ IdlePrograms
    /\ IdleMarket

\* create_job_record on each of the two postings: the skills they are tagged with
CallExtractBoth ==
    /\ calc_out = NoCall
    /\ calc_in.op = "alias"
    /\ calc_out' = [fn        |-> "alias",
                    alias     |-> extract_skills_enhanced(
                                      Append(calc_in.before, calc_in.alias), << >>, << >>),
                    canonical |-> extract_skills_enhanced(
                                      Append(calc_in.before, normalization_map(calc_in.alias)),
                                      << >>, << >>)]
    /\ UNCHANGED <<calc_in, storeVars, runVars>>

NextAlias == CallExtractBoth

SpecAlias == InitAlias /\ [][NextAlias]_vars

----------------------------------------------------------------------------
(* run_analytics.py while a scraping session stores postings and cleans up  *)
(* old ones; the store does not fail                                        *)

\* postings the collection holds when the run starts: one whose posted_date
\* is a text that is no date, stored 91 days ago; one without posted_date,
\* stored 91 days ago; one posted and stored 20 days ago
AgedJobs ==
    { [job_hash |-> 5, skills_extracted |-> {Python}, posted_date |-> TextHigh,
       company |-> "initech", location |-> "pune",
       salary_range |-> SalaryRange(NoneAmount, NoneAmount),
       scraped_date |-> Day0 - 91, scraped_hour |-> 0],
      [job_hash |-> 6, skills_extracted |-> {GithubTools}, posted_date |-> NoDate,
       company |-> "initech", location |-> "remote",
       salary_range |-> SalaryRange(12, 18),
       scraped_date |-> Day0 - 91, scraped_hour |-> 0],
      [job_hash |-> 7, skills_extracted |-> {Python}, posted_date |-> IsoDate(Day0 - 20),
       company |-> "globex", location |-> "pune",
       salary_range |-> SalaryRange(NoneAmount, 30),
       scraped_date |-> Day0 - 20, scraped_hour |-> 0] }

\* the posting the session finds
RaceFeed == {job \in JobFeed : job.job_hash = 2}

InitRace ==
    /\ now = Day0
    /\ jobs \in {J \in SUBSET AgedJobs : Cardinality(J) < MaxJobs}
    /\ skills = {}
    /\ unique_indexes = <<PairIndex>>
    /\ IdleRun
    /\ IdlePrograms
    /\ IdleMarket
    /\ IdleCalc

NextRace ==
    \/ main_get_database
    \/ StartRun(ListArg(<<7, 30, 60>>))
    \/ ReadWindow(FALSE)
    \/ \E k \in SkillKeys : WriteKey(k, FALSE)
    \/ main_summary_today
    \/ main_generate_market_summary(FALSE)
    \/ scraper_get_database
    \/ \E job \in RaceFeed : create_job_record(job)
    \/ store_job_validate
    \/ store_job_insert_one(FALSE)
    \/ main_nothing_stored
    \/ update_skill_trends
    \/ scraper_generate_market_summary(FALSE)
    \/ validate_and_cleanup_data
    \/ cleanup_invalid_records_old_cutoff
    \/ cleanup_invalid_records(FALSE)
    \/ cleanup_old_data_cutoff_date(ScraperCleanupDays)
    \/ cleanup_old_data(FALSE)

SpecRace == InitRace /\ [][NextRace]_vars

----------------------------------------------------------------------------
(* The summary writers: a scraping session and test_analytics.py, with the  *)
(* clock read with its time of day                                          *)

\* the posting the collection holds: stored at midnight of the day before Day0
YesterdayJobs ==
    {job @@ [scraped_date |-> Day0 - 1, scraped_hour |-> 0] :
        job \in {j \in JobFeed : j.job_hash = 1}}

\* the posting the session finds: it shares its skill name with the stored one
MarketFeed == {job \in JobFeed : job.job_hash = 3}

\* a summary written the day before Day0
OldSummary ==
    [_id |-> 1, date |-> Day0 - 1, total_jobs |-> 0, new_jobs_24h |-> 0,
     top_skills |-> {}, top_companies |-> {}, top_locations |-> {},
     skill_categories |-> << >>, total_unique_skills |-> 0]

InitMarket ==
    /\ now = Day0
    /\ hour = 0
    /\ jobs = YesterdayJobs
    /\ skills \in {{}, {StaleDoc}}
    /\ market \in {{}, {OldSummary}}
    /\ unique_indexes = <<NameIndex>>
    /\ IdleRun
    /\ IdlePrograms
    /\ IdleCalc

NextMarket ==
    \/ test_get_database
    \/ test_calculate_skill_trends
    \/ \E fault \in BOOLEAN : test_generate_market_summary(fault)
    \/ scraper_get_database
    \/ \E job \in MarketFeed : create_job_record(job)
    \/ store_job_validate
    \/ store_job_insert_one(FALSE)
    \/ main_nothing_stored
    \/ update_skill_trends
    \/ \E fault \in BOOLEAN : scraper_generate_market_summary(fault)
    \/ validate_and_cleanup_data
    \/ cleanup_invalid_records_old_cutoff
    \/ cleanup_invalid_records(FALSE)
    \/ cleanup_old_data_cutoff_date(ScraperCleanupDays)
    \/ cleanup_old_data(FALSE)
    \/ AdvanceHours

SpecMarket == InitMarket /\ [][NextMarket]_vars

(* Claims *)

TrendCall == calc_out.fn = "trend"
DetermineCall == calc_out.fn = "determine"

\* job count of the shortest configured window of the call
ShortestCount == calc_in.job_counts[Min(Range(calc_in.days_periods))]

\* the five rules in the stated order over composite growth g and recent count r
RuleDirection(g, r) ==
    IF g > 50000 /\ r >= 5 THEN UP
    ELSE IF g > 20000 /\ r >= 2 THEN UP
    ELSE IF g > 5000 /\ r >= 1 THEN UP
    ELSE IF g < -20000 \/ r = 0 THEN DOWN
    ELSE STABLE

\* C1: the direction of every computed trend is the first matching rule applied
\* to the composite growth and the job count of the shortest configured window
C1_FirstMatchShortestWindow ==
    TrendCall => calc_out.doc.trend_direction = RuleDirection(calc_out.avg, ShortestCount)

\* C2 as stated: growth 51 with recent count 5 is UP, growth exactly 50 with
\* recent count 5 is not UP
C2_FiftyIsNotUp ==
    DetermineCall /\ GetCount(calc_in.job_counts, 7) = 5 =>
        /\ calc_in.avg = 51000 => calc_out.direction = UP
        /\ calc_in.avg = 50000 => calc_out.direction # UP

\* C2 amended: growth 51 with recent count 5 is UP by the first rule; growth
\* exactly 50 with recent count 5 misses the first rule and is UP by the second
C2_FiftyFallsToSecondRule ==
    DetermineCall /\ GetCount(calc_in.job_counts, 7) = 5 =>
        /\ calc_in.avg = 51000 => calc_out.branch = 1 /\ calc_out.direction = UP
        /\ calc_in.avg = 50000 => calc_out.branch = 2 /\ calc_out.direction = UP

C2_Witness ==
    /\ DetermineCall
    /\ GetCount(calc_in.job_counts, 7) = 5
    /\ calc_in.avg = 50000
    /\ calc_out.direction = UP

\* C3: a key whose recent (shortest) window count is 0 is stored with direction
\* DOWN whatever its composite growth
C3_ZeroActivityIsDown ==
    TrendCall /\ ShortestCount = 0 => calc_out.doc.trend_direction = DOWN

ExactnessCall ==
    /\ TrendCall
    /\ calc_in.days_periods = <<7, 30, 60>>
    /\ calc_in.job_counts[7] = 14
    /\ calc_in.job_counts[30] = 30
    /\ calc_in.job_counts[60] = 40

\* C4 as stated: counts 14/30/40 give a '7d_vs_23d' rate of 187.36 +/- 0.01
C4_Rate187_36 ==
    ExactnessCall =>
        /\ calc_out.rates[1].label = "7d_vs_23d"
        /\ calc_out.rates[1].rate \in 18735..18737

\* C4 amended: counts 14/30/40 give a '7d_vs_23d' rate of exactly 187.50
C4_Rate187_50 ==
    ExactnessCall =>
        /\ calc_out.rates[1].label = "7d_vs_23d"
        /\ calc_out.rates[1].rate = 18750

C4_Witness == ExactnessCall /\ calc_out.doc.growth_rates_detail[1].rate = 18750

Surviving(R) == SelectSeq(R, LAMBDA e : e.rate <= 50000 /\ e.rate >= -50000)

Clamp200(x) == IF x > 20000 THEN 20000 ELSE IF x < -20000 THEN -20000 ELSE x

\* C5: the composite is 0.7*F[1] + 0.3*F[2] over the rates F within +/-500, the
\* single surviving rate when there is one, the first raw rate clamped to
\* +/-200 when none survives, 0 when there is no rate; with a surviving rate
\* the composite lies between the surviving rates, so no outlier enters it
C5_CompositeRule ==
    TrendCall =>
        LET R == calc_out.rates
            F == Surviving(R)
        IN  /\ Len(F) >= 2 => calc_out.avg = 7 * F[1].rate + 3 * F[2].rate
            /\ Len(F) = 1 => calc_out.avg = 10 * F[1].rate
            /\ Len(F) = 0 /\ Len(R) > 0 => calc_out.avg = 10 * Clamp200(R[1].rate)
            /\ Len(R) = 0 => calc_out.avg = 0
            /\ Len(F) > 0 =>
                 /\ \E i \in 1..Len(F) : calc_out.avg <= 10 * F[i].rate
                 /\ \E i \in 1..Len(F) : calc_out.avg >= 10 * F[i].rate

\* an outlier of more than +10,000% next to a surviving rate
C5_Witness ==
    /\ TrendCall
    /\ Len(calc_out.rates) = 2
    /\ calc_out.rates[1].rate > 1000000
    /\ Abs(calc_out.rates[2].rate) <= 50000
    /\ calc_out.avg = 10 * calc_out.rates[2].rate

\* the rate of the adjacent pair (S, L) as the formula of the claim gives it
AdjacentRate(jc, S, L) ==
    LET older == jc[L] - jc[S]
    IN  IF older > 0
        THEN RoundDiv(10000 * (jc[S] * (L - S) - older * S), older * S)
        ELSE RoundDiv(10000 * (100 * jc[S] - S), S)

\* C6: a list of at least two windows yields one rate per adjacent pair of the
\* sorted windows, each computed from the counts of that pair
C6_OneRatePerAdjacentPair ==
    TrendCall /\ Len(calc_in.days_periods) >= 2 =>
        LET W == SortedSeq(Range(calc_in.days_periods))
        IN  /\ Len(calc_out.rates) = Len(W) - 1
            /\ \A i \in 1..(Len(W) - 1) :
                 calc_out.rates[i].rate = AdjacentRate(calc_in.job_counts, W[i], W[i + 1])

AtMostOnePerKey ==
    \A a, b \in skills :
        a.skill_name = b.skill_name /\ a.category = b.category => a = b

\* a run returns from its write loop without an exception
Completes == pc = "write" /\ pc' = "done" /\ error' = "none"

\* the key a step of the write loop has written
WroteKeys == IF pc = "write" THEN pending \ pending' ELSE {}

\* the keys that have a record in store S
KeysStored(S) == {k \in SkillKeys : filter_matches(S, k) # {}}

\* a step of fix_indexes.py or of final_cleanup.py
ScriptStep == fix' # fix \/ final' # final

C8_PairNotNameUniqueness ==
    pc = "done" /\ {GithubCloud, GithubTools} \subseteq all_skill_keys =>
        error # "DuplicateKeyError"

\* C9: after a failed upsert the run still reaches every other key: at most
\* the failed key is left unwritten when the run ends
C9_WriteFailureDoesNotBlock ==
    pc = "done" /\ error \in {"write", "DuplicateKeyError"} =>
        Cardinality(pending) <= 1

\* values a run without failure returns
SuccessResults == 0..Cardinality(SkillKeys)

\* C10: a run whose window read failed has written nothing and hands its
\* caller a failure, not a value that a successful run returns
C10_ReadFailureAbortsAndReports ==
    pc = "done" /\ error = "read" =>
        /\ updated_count = 0
        /\ result \notin SuccessResults

UpdateCall == calc_out.fn = "update_one"

\* C11: after the write of a key the stored record of that key consists of
\* exactly the fields of the newly built record (and the store's _id), so no
\* field of the record stored before survives unless the new record has it
C11_WriteIsFullReplace ==
    UpdateCall =>
        \A d \in filter_matches(skills, calc_in.skill_key) :
            DOMAIN d \ {"_id"} = DOMAIN calc_out.doc

DateCall == calc_out.fn = "date_query"

\* the effective date of the date policy: the posted date when it is a
\* timestamp or an ISO date string, the scrape date otherwise
EffectiveDate(job) ==
    IF job.posted_date.kind \in {"datetime", "iso"}
    THEN datetime(job.posted_date.day, 0)
    ELSE datetime(job.scraped_date, job.scraped_hour)

\* C15: a posting is counted in the N-day window iff its effective date is at
\* or after now - N days; a posting whose posted date is a string that is not
\* a date is placed by its scrape date
C15_CountedByEffectiveDate ==
    DateCall =>
        (calc_out.counted <=>
            EffectiveDate(calc_in.job) >= datetime(now, hour) - 24 * calc_in.period_days)

InRun == pc \in {"read", "write"}

\* the records this run can build for key k
BuiltDocs(k) ==
    skill_trend_docs(k, days_periods.list,
                     job_counts_of(k, days_periods.list, period_results),
                     latest_data_of(k, days_periods.list, period_results), current_time)

\* a stored record that is the whole record built by this run for key k
IsBuiltRecord(d, k) == \E doc \in BuiltDocs(k) : d = apply_set([_id |-> d._id], doc)

\* while the write loop runs, every key it has passed holds the whole record
\* built by this run
ProcessedAreFresh ==
    pc = "write" =>
        \A k \in all_skill_keys \ pending :
            \E d \in skills : filter_matches(skills, k) = {d} /\ IsBuiltRecord(d, k)

\* a step of a run changes at most the record of the key it writes, to the
\* whole record built for that key; a failing step changes nothing
StepWritesWholeRecord ==
    InRun =>
        LET written == pending \ pending'
        IN  /\ \A d \in skills' : d \in skills \/ \E k \in written : IsBuiltRecord(d, k)
            /\ \A d \in skills : d \in skills' \/ \E k \in written : d \in filter_matches(skills, k)
            /\ written = {} => skills' = skills

\* C12: at every point of a run, also when it fails between two writes, each
\* stored record is the complete record built by this run or the unchanged
\* record from before it: processed keys are fresh, the others are untouched
C12_RecordsWholeOrUntouched ==
    /\ []ProcessedAreFresh
    /\ [][StepWritesWholeRecord]_vars

\* the stored job count of window w
CountField(d, w) ==
    IF w = 7 THEN d.job_count_7d ELSE IF w = 30 THEN d.job_count_30d ELSE d.job_count_60d

\* keys observed in the result of at least one window of the run
ObservedKeys == {k \in SkillKeys : \E w \in DOMAIN period_results : k \in DOMAIN period_results[w]}

\* record d carries for each window of the run the count the window observed
\* for key k, 0 when the window did not observe the key
CarriesObservedCounts(d, k) ==
    /\ d.last_updated = current_time
    /\ \A w \in DOMAIN period_results :
          CountField(d, w) = IF k \in DOMAIN period_results[w]
                             THEN period_results[w][k].job_count ELSE 0

\* the write loop goes over the keys observed in any window, and a record it
\* has written carries for each window the observed count, 0 when the window
\* did not observe the key
UnionIsWritten ==
    pc = "write" =>
        /\ all_skill_keys = ObservedKeys
        /\ pending \subseteq all_skill_keys
        /\ \A k \in all_skill_keys \ pending :
             \A d \in filter_matches(skills, k) : CarriesObservedCounts(d, k)

TrendFields ==
    {"skill_name", "category", "job_count_7d", "job_count_30d", "job_count_60d",
     "growth_rates_detail", "growth_rate", "trend_direction"}

Projection(S) == {[f \in TrendFields |-> d[f]] : d \in S}

\* the key a step of the write loop has written
Written == pending \ pending'

\* the trends of the store are, record by record, what they were
SameTrends ==
    /\ Projection(skills') = Projection(skills)
    /\ Cardinality(skills') = Cardinality(skills)

\* the store holds a record that this run has not written: an earlier run
\* over these postings wrote it
EarlierRunWrote ==
    pc = "write" /\ Cardinality(skills) > Cardinality(all_skill_keys \ pending)

\* C13 as stated: a write of a second run over an unchanged posting set leaves
\* every key with the counts, growth rates and direction the first run left,
\* and adds no record
C13_RerunLeavesSameTrends ==
    [][EarlierRunWrote /\ Written # {} => SameTrends]_vars

ExtractCall == calc_out.fn = "extract"

\* the text of the posting the extractor was called on
CallText == full_text(calc_in.title, calc_in.description, calc_in.requirements)

FoundNames == {calc_out.found_skills[i].skill : i \in 1..Len(calc_out.found_skills)}

\* C16: the returned list has no two entries with the same normalized skill
\* name, however often and by however many categories the name was matched
C16_NoDuplicateNames ==
    ExtractCall =>
        \A i, j \in 1..Len(calc_out.found_skills) :
            i # j => calc_out.found_skills[i].skill # calc_out.found_skills[j].skill

\* github was matched at two places and by the cloud and the tools recognizer
C16_Witness ==
    /\ ExtractCall
    /\ \E i, j, k \in 1..Len(calc_out.scored) :
          /\ calc_out.scored[i].skill = "github" /\ calc_out.scored[i].category = "cloud"
          /\ calc_out.scored[j].skill = "github" /\ calc_out.scored[j].category = "tools"
          /\ calc_out.scored[k].skill = "github"
          /\ calc_out.scored[k].position # calc_out.scored[i].position
    /\ Cardinality({i \in 1..Len(calc_out.found_skills) :
                        calc_out.found_skills[i].skill = "github"}) = 1

SkillNames == {"python", "github", "r"}

\* offsets at which the recognizers match the normalized name in the text
Occurrences(text, name) ==
    {all_matches(text, 1)[i].position :
        i \in {j \in 1..Len(all_matches(text, 1)) :
                  normalization_map(all_matches(text, 1)[j].raw) = name}}

\* C17: a name is in the result iff it has at least two characters and the
\* highest confidence among its occurrences in the text is above 0.3
C17_EmittedIffBestAboveThreshold ==
    ExtractCall =>
        \A name \in SkillNames :
            name \in FoundNames <=>
                /\ NameLen(name) >= 2
                /\ \E pos \in Occurrences(CallText, name) :
                      calculate_skill_confidence(name, CallText, pos) > 30

\* C18: extraction runs over the concatenation of the three fields, an empty
\* field being empty text: the result is what the scan of the whole text
\* yields, also when the description is the empty field
C18_EmptyDescriptionStillScanned ==
    ExtractCall =>
        calc_out.found_skills = found_skills(skill_scores(scored_matches(CallText), << >>))

\* the context window of a match: text[start:end]
WindowStart(m) == Max({0, m.position - 50})
WindowEnd(m) == Min({CallText.len, m.position + NameLen(m.skill) + 50})

\* the context holds the first n characters of the phrase: enough for the
\* pattern of the phrase to match on its own
PhraseInContext(m, phrase, n) ==
    \E i \in 1..Len(CallText.words) :
        /\ CallText.words[i].word = phrase
        /\ CallText.words[i].start >= WindowStart(m)
        /\ CallText.words[i].start + n <= WindowEnd(m)

\* the context holds the phrase followed at once by the skill name
PhraseBeforeSkill(m, phrase) ==
    \E i \in 1..(Len(CallText.words) - 1) :
        /\ CallText.words[i].word = phrase
        /\ StartsWith(CallText.words[i + 1].word, m.skill)
        /\ CallText.words[i].start >= WindowStart(m)
        /\ CallText.words[i + 1].start + NameLen(m.skill) <= WindowEnd(m)

UrlInContext(m) ==
    \E i \in 1..Len(CallText.words) : \E u \in UrlMarks(CallText.words[i].word) :
        /\ CallText.words[i].start + u[1] >= WindowStart(m)
        /\ CallText.words[i].start + u[1] + u[2] <= WindowEnd(m)

Clamp01(c) == IF c > 100 THEN 100 ELSE IF c < 0 THEN 0 ELSE c

Bonus(b, n) == IF b THEN n ELSE 0

\* a stored float equals the decimal value c up to the rounding of the sum
FloatOf(x, c) == x = c \/ x = c - 1

\* C19 as stated: the confidence is 0.5, +0.3 when the context matches the
\* experience pattern, +0.2 when it matches the proficiency pattern, +0.2 when
\* it matches the requirement pattern, -0.4 when it holds '@', 'http' or
\* '.com', clamped to [0, 1] (up to the rounding of the float sum)
C19_BonusForPatternInContext ==
    ExtractCall =>
        \A i \in 1..Len(calc_out.scored) :
            LET m == calc_out.scored[i]
            IN  FloatOf(m.confidence,
                    Clamp01(50 + Bonus(PhraseInContext(m, "5 years", 6), 30)
                               + Bonus(PhraseInContext(m, "expert in", 6), 20)
                               + Bonus(PhraseInContext(m, "required", 8), 20)
                               - Bonus(UrlInContext(m), 40)))

\* C19 amended: the experience and the proficiency bonus are given when the
\* context matches the pattern followed at once by the skill name, the
\* requirement bonus when the context matches the requirement pattern
\* anywhere; the value is clamped to [0, 1] (up to the rounding of the float
\* sum)
C19_BonusForPatternBeforeSkill ==
    ExtractCall =>
        \A i \in 1..Len(calc_out.scored) :
            LET m == calc_out.scored[i]
            IN  /\ FloatOf(m.confidence,
                      Clamp01(50 + Bonus(PhraseBeforeSkill(m, "5 years"), 30)
                                 + Bonus(PhraseBeforeSkill(m, "expert in"), 20)
                                 + Bonus(PhraseInContext(m, "required", 8), 20)
                                 - Bonus(UrlInContext(m), 40)))
                /\ m.confidence \in 0..100

\* the experience phrase is in the context of a match but not before the
\* skill name, and the match keeps the base confidence
C19_Witness ==
    /\ ExtractCall
    /\ \E i \in 1..Len(calc_out.scored) :
          LET m == calc_out.scored[i]
          IN  /\ PhraseInContext(m, "5 years", 6)
              /\ ~PhraseBeforeSkill(m, "5 years")
              /\ m.confidence = 50

\* the name occurs exactly once in the text, inside an e-mail address or URL
OnlyInsideUrl(name) ==
    /\ Cardinality(Occurrences(CallText, name)) = 1
    /\ \A pos \in Occurrences(CallText, name) :
          \E i \in 1..Len(CallText.words) :
              /\ CallText.words[i].start <= pos
              /\ pos < CallText.words[i].start + WordLen(CallText.words[i].word)
              /\ UrlMarks(CallText.words[i].word) # {}

\* C20: a skill whose only occurrence lies inside an e-mail address or URL
\* is scored at most 0.3 and is not in the extracted set
C20_UrlOccurrenceSuppressed ==
    ExtractCall =>
        \A name \in SkillNames :
            OnlyInsideUrl(name) =>
                /\ name \notin FoundNames
                /\ \A i \in 1..Len(calc_out.scored) :
                      calc_out.scored[i].skill = name => calc_out.scored[i].confidence <= 30

\* the two postings of a call are tagged with the same SkillKeys
SameTags == Range(calc_out.alias) = Range(calc_out.canonical)

\* C21: a posting that mentions only an alias of the normalization table and
\* a posting that mentions only its canonical form are tagged with the same
\* SkillKey, the same normalized name under the same category
C21_AliasAndCanonicalShareKey ==
    calc_out.fn = "alias" =>
        /\ Len(calc_out.alias) = 1
        /\ Len(calc_out.canonical) = 1
        /\ SameTags

\* indices of the scored occurrences of a name, in scan order
OccurrencesOf(name) == {i \in 1..Len(calc_out.scored) : calc_out.scored[i].skill = name}

\* the first scanned occurrence of the name with the highest confidence
FirstBest(name) ==
    LET occ  == OccurrencesOf(name)
        best == Max({calc_out.scored[i].confidence : i \in occ})
    IN  Min({i \in occ : calc_out.scored[i].confidence = best})

\* C25: the category emitted for a skill is that of its highest-confidence
\* occurrence and, among occurrences of equal confidence, of the one scanned
\* first
C25_CategoryOfFirstBestOccurrence ==
    ExtractCall =>
        \A j \in 1..Len(calc_out.found_skills) :
            LET f == calc_out.found_skills[j]
            IN  /\ OccurrencesOf(f.skill) # {}
                /\ f.category = calc_out.scored[FirstBest(f.skill)].category

\* an emitted name has an occurrence of another category scanned before its
\* best one, and the later category is emitted
C25_Witness ==
    /\ ExtractCall
    /\ \E j \in 1..Len(calc_out.found_skills) :
          LET f == calc_out.found_skills[j]
          IN  /\ FirstBest(f.skill) # Min(OccurrencesOf(f.skill))
              /\ calc_out.scored[Min(OccurrencesOf(f.skill))].category # f.category

\* an emitted name has two occurrences of equal, highest confidence in two
\* categories, and the category of the first is emitted
C25_WitnessTie ==
    /\ ExtractCall
    /\ \E j \in 1..Len(calc_out.found_skills) :
          LET f == calc_out.found_skills[j]
          IN  \E i \in OccurrencesOf(f.skill) :
                  /\ i > FirstBest(f.skill)
                  /\ calc_out.scored[i].confidence = calc_out.scored[FirstBest(f.skill)].confidence
                  /\ calc_out.scored[i].category # f.category

\* the three-way rule over composite growth g and recent count r
ThreeWay(g, r) ==
    IF g > 5000 /\ r >= 1 THEN UP
    ELSE IF g < -20000 \/ r = 0 THEN DOWN
    ELSE STABLE

\* C26: the direction returned by the five-rule classifier is UP iff g > 5
\* and r >= 1, DOWN iff it is not UP and (g < -20 or r = 0), STABLE otherwise
C26_FiveRulesAreThreeWay ==
    DetermineCall =>
        calc_out.direction = ThreeWay(calc_in.avg, GetCount(calc_in.job_counts, 7))

\* a call answered by one of the two stricter rules
C26_Witness ==
    /\ DetermineCall
    /\ calc_out.branch \in {1, 2}
    /\ calc_out.direction = UP

\* every pairwise rate of the call was dropped by the outlier filter
AllOutliers == Len(calc_out.rates) > 0 /\ Len(filtered_rates(calc_out.rates)) = 0

\* C27: every pairwise growth rate is at least -100 %, the stored composite
\* growth rate lies in [-100 %, 500 %], and the all-outlier fallback yields
\* exactly 200 %
C27_RatesBounded ==
    TrendCall =>
        /\ \A i \in 1..Len(calc_out.rates) : calc_out.rates[i].rate >= -10000
        /\ calc_out.doc.growth_rate >= -10000
        /\ calc_out.doc.growth_rate <= 50000
        /\ AllOutliers => calc_out.avg = 200000 /\ calc_out.doc.growth_rate = 20000

\* one call took the all-outlier fallback
C27_Witness == TrendCall /\ AllOutliers /\ calc_out.doc.growth_rate = 20000

\* a call with a pairwise rate of -100 % and a composite of -100 %
C27_WitnessLowest ==
    /\ TrendCall
    /\ \E i \in 1..Len(calc_out.rates) : calc_out.rates[i].rate = -10000
    /\ calc_out.doc.growth_rate = -10000

\* the count a run has read for a key in a window, 0 when the key is absent
ReadCount(w, k) ==
    IF k \in DOMAIN period_results[w] THEN period_results[w][k].job_count ELSE 0

\* C28: in every run, for windows S < L that the run has read, each key's
\* L-day count is at least its S-day count, also when postings are stored or
\* deleted between the reads
C28_LongerWindowCountsMore ==
    \A S \in DOMAIN period_results, L \in DOMAIN period_results :
        S < L => \A k \in SkillKeys : ReadCount(L, k) >= ReadCount(S, k)

\* the SkillKey a trend record is stored under
KeyOf(d) == <<d.skill_name, d.category>>

\* a step of a run: a window read, an upsert, or the exception that ends it
RunStep == pc \in {"read", "write"} /\ runVars' # runVars

\* a step of a run keeps every record and changes none of a key outside
\* all_skill_keys
StepKeepsUnobserved ==
    RunStep =>
        /\ \A d \in skills : \E e \in skills' : e._id = d._id
        /\ \A d \in skills : KeyOf(d) \notin all_skill_keys => d \in skills'

\* C29: a step of a run deletes no trend record and leaves the record of
\* every SkillKey the run did not observe in any window as it is
C29_RunKeepsUnobservedRecords == [][StepKeepsUnobserved]_vars

\* a run has written its records and the store still holds, as an earlier
\* run wrote it, the record of a key whose postings have aged out of every
\* window
C29_Witness ==
    /\ pc = "done"
    /\ error = "none"
    /\ result >= 1
    /\ \E d \in skills :
          /\ KeyOf(d) \notin all_skill_keys
          /\ d.last_updated < current_time
          /\ d.job_count_60d >= 1

\* C30: the value a run returns is the number of records it upserted, also
\* when the run stopped on an error after some records were written
C30_ReturnsNumberWritten == pc = "done" => result = updated_count

\* the step is the call calculate_skill_trends(30) of test_analytics.py
TestCall == test.at = "connected" /\ test'.at = "summary"

\* the step is the call calculate_skill_trends(30) of update_skill_trends
ScraperCall == scraper.at = "search" /\ scraper'.at = "summary"

\* records of the call: one per SkillKey of the postings of the last 30 days
StepWritesThirtyDayTrends ==
    LET observed == DOMAIN aggregate(jobs, datetime(now, hour) - 24 * 30)
        written  == \A k \in observed :
                       \E d \in skills' : KeyOf(d) = k /\ d.last_updated = datetime(now, hour)
    IN  /\ TestCall => written /\ test'.trends_updated = Cardinality(observed)
        /\ ScraperCall => written /\ scraper'.trends_updated = Cardinality(observed)

\* C24: calculate_skill_trends(30) upserts a record for every SkillKey
\* observed in the last 30 days and returns the number of records updated
C24_SingleWindowRunWritesRecords == [][StepWritesThirtyDayTrends]_vars

OneSummaryPerDate == \A a \in market, b \in market : a.date = b.date => a = b

\* the locals of the caller of generate_market_summary that takes the step
WriterLocals ==
    (IF pc = "summary" /\ summary' # summary THEN {summary} ELSE {})
    \cup (IF test.at = "summary" /\ test' # test THEN {test.summary} ELSE {})
    \cup (IF scraper.at = "summary" /\ scraper' # scraper THEN {scraper.summary} ELSE {})

\* a run that wrote leaves, under the date it read, the values it computed,
\* and every other summary as it was
StepStoresComputedSummary ==
    market' # market =>
        \E loc \in WriterLocals, d \in market' :
            /\ loc.at \in {"update_one", "insert"}
            /\ d.date = loc.today
            /\ \A f \in DOMAIN MarketSummary(loc) : d[f] = MarketSummary(loc)[f]
            /\ \A e \in market' : e = d \/ e \in market

\* C22: the market store holds at most one summary per calendar date, and
\* after a run that wrote, the summary of its date carries the values the
\* run computed
C22_OneSummaryPerDate ==
    /\ []OneSummaryPerDate
    /\ [][StepStoresComputedSummary]_vars

\* the time a posting was stored
scraped_at(j) == datetime(j.scraped_date, j.scraped_hour)

\* the clock readings a caller can have cut to the midnight it works with:
\* those of that date, up to the present
RunTimes(loc) ==
    {t \in {datetime(loc.today, 0), datetime(loc.today, HourStep)} :
        t <= datetime(now, hour)}

\* the locals with which a caller of generate_market_summary comes out of
\* its new_jobs_24h count (line 302)
CountedNewJobs ==
    (IF test.at = "summary" /\ test'.at = "summary"
           /\ test.summary.at = "new_jobs_24h" /\ test'.summary.at = "top_skills"
     THEN {test'.summary} ELSE {})
    \cup (IF scraper.at = "summary" /\ scraper'.at = "summary"
              /\ scraper.summary.at = "new_jobs_24h"
              /\ scraper'.summary.at = "top_skills"
           THEN {scraper'.summary} ELSE {})

\* C23: the new_jobs_24h a run counts, and then writes, is the number of
\* postings scraped within the 24 hours before the time of the run, whatever
\* time of its date the run has read
C23_NewJobsOfLast24Hours ==
    [][\A loc \in CountedNewJobs :
          \E t \in RunTimes(loc) :
              loc.new_jobs_24h =
                  Cardinality({j \in jobs : scraped_at(j) <= t /\ t - scraped_at(j) <= 24})]_vars

====
